---- MODULE Spec2Model ----
(***************************************************************************)
(* Model of src/app.py (Portfolio Simple Analyzer): the price normalizer,  *)
(* the cross-currency netting, the price resolver and the reports built on *)
(* the reset scan.                                                         *)
(*                                                                         *)
(* Numbers.  The program computes with float64; the model computes with    *)
(* exact rationals <<n, d>> (d > 0, lowest terms), and <<0, 0>> is NaN.    *)
(* Text.  A label (Tipo, Moneda) is a sequence of one-character strings so *)
(* that strip(), lower() and the substring tests are computed.             *)
(* Dates are day numbers; pd.Timedelta(days=7) is the integer 7.           *)
(* Tables.  A DataFrame is a sequence of rows; the field idx is the row's  *)
(* pandas index label.                                                     *)
(***************************************************************************)
EXTENDS Integers, Sequences, FiniteSets, TLC

(***************************************************************************)
(* float64 values as exact rationals                                       *)
(***************************************************************************)
NaN == <<0, 0>>

Abs(n) == IF n < 0 THEN -n ELSE n

RECURSIVE Gcd(_, _)
Gcd(a, b) == IF b = 0 THEN a ELSE Gcd(b, a % b)

\* the rational n/d in lowest terms with a positive denominator
Rat(n, d) ==
    IF d = 0 THEN NaN
    ELSE LET g == Gcd(Abs(n), Abs(d))
             s == IF d < 0 THEN -1 ELSE 1
         IN  <<(s * n) \div g, (s * d) \div g>>

R(n) == <<n, 1>>

notna(a) == a[2] # 0
isna(a) == a[2] = 0

RAdd(a, b) == IF isna(a) \/ isna(b) THEN NaN ELSE Rat(a[1] * b[2] + b[1] * a[2], a[2] * b[2])
RNeg(a) == IF isna(a) THEN NaN ELSE <<-a[1], a[2]>>
RSub(a, b) == RAdd(a, RNeg(b))
RMul(a, b) == IF isna(a) \/ isna(b) THEN NaN ELSE Rat(a[1] * b[1], a[2] * b[2])
\* callers divide by a nonzero value only
RDiv(a, b) == IF isna(a) \/ isna(b) THEN NaN ELSE Rat(a[1] * b[2], a[2] * b[1])
RAbs(a) == IF isna(a) THEN NaN ELSE <<Abs(a[1]), a[2]>>

\* IEEE comparisons: every ordered comparison with NaN is False, != is True
RLt(a, b) == notna(a) /\ notna(b) /\ a[1] * b[2] < b[1] * a[2]
RLe(a, b) == notna(a) /\ notna(b) /\ a[1] * b[2] <= b[1] * a[2]
RGt(a, b) == RLt(b, a)
RGe(a, b) == RLe(b, a)
REq(a, b) == notna(a) /\ notna(b) /\ a[1] * b[2] = b[1] * a[2]
RNe(a, b) == ~REq(a, b)

Zero == R(0)

(***************************************************************************)
(* str values as sequences of characters                                   *)
(***************************************************************************)
\* a missing label (None / NaN in the Moneda column)
NA == <<"<NA>">>

LowerTable ==
    ("A" :> "a") @@ ("B" :> "b") @@ ("C" :> "c") @@ ("D" :> "d") @@ ("E" :> "e") @@
    ("I" :> "i") @@ ("L" :> "l") @@ ("M" :> "m") @@ ("N" :> "n") @@ ("O" :> "o") @@
    ("P" :> "p") @@ ("R" :> "r") @@ ("S" :> "s") @@ ("T" :> "t") @@ ("U" :> "u") @@
    ("V" :> "v") @@ ("Ó" :> "ó")

\* str.lower()
lower(s) == [i \in DOMAIN s |-> IF s[i] \in DOMAIN LowerTable THEN LowerTable[s[i]] ELSE s[i]]

RECURSIVE lstrip(_)
lstrip(s) == IF s # <<>> /\ Head(s) = " " THEN lstrip(Tail(s)) ELSE s

RECURSIVE rstrip(_)
rstrip(s) == IF s # <<>> /\ s[Len(s)] = " " THEN rstrip(SubSeq(s, 1, Len(s) - 1)) ELSE s

\* str.strip()
strip(s) == rstrip(lstrip(s))

\* keyword in text
contains(s, k) ==
    \E i \in 1..(Len(s) - Len(k) + 1) : \A j \in 1..Len(k) : s[i + j - 1] = k[j]

keywords_dolar ==
    { <<"d","ó","l","a","r">>, <<"d","o","l","a","r">>, <<"u","s","d">>, <<"u","$","s">>,
      <<"u","$">>, <<"u","s","$">>, <<"b","i","l","l","e","t","e">> }

keywords_pesos == { <<"p","e","s","o","s">>, <<"p","e","s","o">>, <<"a","r","s">> }

\* variant: the peso keywords are tried first
detectar_moneda_mut(texto) ==
    IF texto = NA THEN "unknown"
    ELSE LET texto_lower == lower(strip(texto))
         IN  IF \E k \in keywords_pesos : contains(texto_lower, k) THEN "pesos"
             ELSE IF \E k \in keywords_dolar : contains(texto_lower, k) THEN "dolar"
             ELSE "unknown"

detectar_moneda(texto) ==
    IF texto = NA THEN "unknown"
    ELSE LET texto_lower == lower(strip(texto))
         IN  IF \E k \in keywords_dolar : contains(texto_lower, k) THEN "dolar"
             ELSE IF \E k \in keywords_pesos : contains(texto_lower, k) THEN "pesos"
             ELSE "unknown"

kw_compra == <<"c","o","m","p","r","a">>
kw_venta == <<"v","e","n","t","a">>

keywords_ingreso ==
    { <<"d","i","v","i","d","e","n","d","o">>, <<"c","u","p","ó","n">>,
      <<"d","i","v","i","d","e","n","d">>, <<"c","o","u","p","o","n">>,
      <<"a","m","o","r","t","i","z","a","c","i","ó","n">>,
      <<"a","m","o","r","t","i","z","a","c","i","o","n">> }

(***************************************************************************)
(* DataFrame helpers                                                       *)
(***************************************************************************)
\* df[mask] is SelectSeq(df, Test): the rows that satisfy Test, in table order

Last(t) == t[Len(t)]

RECURSIVE InsertByFecha(_, _)
InsertByFecha(sorted, row) ==
    IF sorted = <<>> THEN <<row>>
    ELSE IF Last(sorted).Fecha <= row.Fecha THEN Append(sorted, row)
    ELSE Append(InsertByFecha(SubSeq(sorted, 1, Len(sorted) - 1), row), Last(sorted))

RECURSIVE SortFrom(_, _)
SortFrom(sorted, rest) ==
    IF rest = <<>> THEN sorted ELSE SortFrom(InsertByFecha(sorted, Head(rest)), Tail(rest))

\* df.sort_values('Fecha'): ascending; rows of equal date keep their table
\* order (numpy sorts tables of this size by insertion)
sort_values(t) == SortFrom(<<>>, t)

RECURSIVE UniqueFrom(_, _)
UniqueFrom(seen, rest) ==
    IF rest = <<>> THEN seen
    ELSE IF \E i \in DOMAIN seen : seen[i] = Head(rest).Activo
         THEN UniqueFrom(seen, Tail(rest))
         ELSE UniqueFrom(Append(seen, Head(rest).Activo), Tail(rest))

\* df['Activo'].unique(): the assets in order of first appearance
unique_activos(t) == UniqueFrom(<<>>, t)

\* df.loc[idx, ['Cantidad', 'Monto']] = cantidad, monto
SetLoc(t, idx, cantidad, monto) ==
    [i \in DOMAIN t |->
        IF t[i].idx = idx THEN [t[i] EXCEPT !.Cantidad = cantidad, !.Monto = monto] ELSE t[i]]

(***************************************************************************)
(* ajustar_precios_operaciones                                             *)
(***************************************************************************)
\* tipo_cambio_data[tipo_cambio_data['Fecha'] <= fecha]
tipo_cambio_hasta(tipo_cambio_data, fecha) ==
    LET Hasta(r) == r.Fecha <= fecha IN SelectSeq(tipo_cambio_data, Hasta)

\* variant: every row that is not Foreign is converted
ajustar_fila_mut(row, tipo_cambio_data) ==
    LET moneda_tipo == detectar_moneda(row.Moneda)
        tipo_cambio_row == tipo_cambio_hasta(tipo_cambio_data, row.Fecha)
    IN  IF moneda_tipo # "dolar" /\ notna(row.Precio)
        THEN IF tipo_cambio_row # <<>>
             THEN LET tipo_cambio == Last(tipo_cambio_row).TipoCambio
                  IN  IF notna(tipo_cambio) /\ RNe(tipo_cambio, Zero)
                      THEN [row EXCEPT !.Precio = RDiv(row.Precio, tipo_cambio),
                                       !.Monto = RDiv(row.Monto, tipo_cambio)]
                      ELSE row
             ELSE row
        ELSE row

\* one iteration of the loop over the rows
ajustar_fila(row, tipo_cambio_data) ==
    LET moneda_tipo == detectar_moneda(row.Moneda)
        tipo_cambio_row == tipo_cambio_hasta(tipo_cambio_data, row.Fecha)
    IN  IF moneda_tipo = "pesos" /\ notna(row.Precio)
        THEN IF tipo_cambio_row # <<>>
             THEN LET tipo_cambio == Last(tipo_cambio_row).TipoCambio
                  IN  IF notna(tipo_cambio) /\ RNe(tipo_cambio, Zero)
                      THEN [row EXCEPT !.Precio = RDiv(row.Precio, tipo_cambio),
                                       !.Monto = RDiv(row.Monto, tipo_cambio)]
                      ELSE row
             ELSE row
        ELSE row

\* variant: the adjusted table is returned in date order
ajustar_precios_operaciones_mut(operaciones, tipo_cambio_data) ==
    sort_values([i \in DOMAIN operaciones |-> ajustar_fila(operaciones[i], tipo_cambio_data)])

\* lines 66-117: the loop over the rows of the copy
ajustar_precios_operaciones(operaciones, tipo_cambio_data) ==
    [i \in DOMAIN operaciones |-> ajustar_fila(operaciones[i], tipo_cambio_data)]

(***************************************************************************)
(* aplicar_netting_cross_currency                                          *)
(*                                                                         *)
(* The pass is a fold over the assets, the Buys of an asset and the        *)
(* eligible Sells of a Buy.  Its state st is [tabla, matches]: tabla is    *)
(* ops_netted, matches records every execution of the netting branch at    *)
(* lines 325-350 as [compra, venta, cantidad] (index labels, quantity      *)
(* netted).  compras and ventas are copies of the input and are never      *)
(* written to.                                                             *)
(***************************************************************************)
VentanaDias == 7

es_compra(row) == contains(lower(row.Tipo), kw_compra)
es_venta(row) == contains(lower(row.Tipo), kw_venta)

\* variant: the part of the Sell left over is stored as a positive quantity
venta_parcial_mut(venta_cantidad_abs, cantidad_restante) ==
    RSub(venta_cantidad_abs, cantidad_restante)

\* line 330: -(venta_cantidad_abs - cantidad_restante)
venta_parcial(venta_cantidad_abs, cantidad_restante) ==
    RNeg(RSub(venta_cantidad_abs, cantidad_restante))

\* the body of "for idx_venta, venta in ventas_elegibles.iterrows()"
RECURSIVE netting_ventas(_, _, _, _)
netting_ventas(st, compra, ventas_elegibles, cantidad_restante) ==
    IF ventas_elegibles = <<>> \/ RLe(cantidad_restante, Zero) THEN st
    ELSE LET venta == Head(ventas_elegibles)
             venta_cantidad_abs == RAbs(venta.Cantidad)
             venta_valor == venta.Monto
             compra_valor == compra.Monto
         IN  IF RGe(venta_cantidad_abs, cantidad_restante)
             THEN LET ratio == RDiv(cantidad_restante, venta_cantidad_abs)
                      t1 == SetLoc(st.tabla, compra.idx, Zero, Zero)
                      t2 == SetLoc(t1, venta.idx,
                                   venta_parcial(venta_cantidad_abs, cantidad_restante),
                                   RMul(venta_valor, RSub(R(1), ratio)))
                      m == [compra |-> compra.idx, venta |-> venta.idx,
                            cantidad |-> cantidad_restante]
                  IN  netting_ventas([tabla |-> t2, matches |-> Append(st.matches, m)],
                                     compra, Tail(ventas_elegibles), Zero)
             ELSE LET ratio == RDiv(venta_cantidad_abs, cantidad_restante)
                      t1 == SetLoc(st.tabla, compra.idx,
                                   RSub(cantidad_restante, venta_cantidad_abs),
                                   RMul(compra_valor, RSub(R(1), ratio)))
                      t2 == SetLoc(t1, venta.idx, Zero, Zero)
                      m == [compra |-> compra.idx, venta |-> venta.idx,
                            cantidad |-> venta_cantidad_abs]
                  IN  netting_ventas([tabla |-> t2, matches |-> Append(st.matches, m)],
                                     compra, Tail(ventas_elegibles),
                                     RSub(cantidad_restante, venta_cantidad_abs))

\* variant: the window reaches one day further after the Buy
en_ventana_mut(compra, ventas) ==
    LET ventana_inicio == compra.Fecha - VentanaDias
        ventana_fin == compra.Fecha + VentanaDias + 1
        Test(v) == /\ v.Fecha >= ventana_inicio
                   /\ v.Fecha <= ventana_fin
                   /\ RLt(v.Cantidad, Zero)
    IN  SelectSeq(ventas, Test)

\* ventas[(Fecha >= ventana_inicio) & (Fecha <= ventana_fin) & (Cantidad < 0)]
en_ventana(compra, ventas) ==
    LET ventana_inicio == compra.Fecha - VentanaDias
        ventana_fin == compra.Fecha + VentanaDias
        Test(v) == /\ v.Fecha >= ventana_inicio
                   /\ v.Fecha <= ventana_fin
                   /\ RLt(v.Cantidad, Zero)
    IN  SelectSeq(ventas, Test)

\* variant: the labels are compared, not their classes
moneda_diferente_mut(compra, ventas_elegibles) ==
    LET Test(v) == v.Moneda # compra.Moneda
    IN  SelectSeq(ventas_elegibles, Test)

\* ventas_elegibles[ventas_elegibles['Moneda'].apply(detectar_moneda) != compra_moneda_tipo]
moneda_diferente(compra, ventas_elegibles) ==
    LET compra_moneda_tipo == detectar_moneda(compra.Moneda)
        Test(v) == detectar_moneda(v.Moneda) # compra_moneda_tipo
    IN  SelectSeq(ventas_elegibles, Test)

\* variant: the eligible Sells are taken latest first
ordenar_ventas_mut(ventas_elegibles) ==
    LET ordenadas == sort_values(ventas_elegibles)
    IN  [i \in DOMAIN ordenadas |-> ordenadas[Len(ordenadas) + 1 - i]]

\* line 310: ventas_elegibles.sort_values('Fecha')
ordenar_ventas(ventas_elegibles) == sort_values(ventas_elegibles)

\* the body of "for idx_compra, compra in compras.iterrows()"
netting_compra(st, compra, ventas) ==
    IF RLe(compra.Cantidad, Zero) THEN st
    ELSE LET ventas_elegibles == moneda_diferente(compra, en_ventana(compra, ventas))
         IN  IF ventas_elegibles = <<>> THEN st
             ELSE netting_ventas(st, compra, ordenar_ventas(ventas_elegibles), compra.Cantidad)

RECURSIVE netting_compras(_, _, _)
netting_compras(st, compras, ventas) ==
    IF compras = <<>> THEN st
    ELSE netting_compras(netting_compra(st, Head(compras), ventas), Tail(compras), ventas)

\* the body of "for activo in operaciones['Activo'].unique()"
netting_activo(st, operaciones, activo) ==
    LET DelActivo(r) == r.Activo = activo
        activo_ops == sort_values(SelectSeq(operaciones, DelActivo))
        compras == SelectSeq(activo_ops, es_compra)
        ventas == SelectSeq(activo_ops, es_venta)
    IN  netting_compras(st, compras, ventas)

RECURSIVE netting_activos(_, _, _)
netting_activos(st, operaciones, activos) ==
    IF activos = <<>> THEN st
    ELSE netting_activos(netting_activo(st, operaciones, Head(activos)), operaciones,
                         Tail(activos))

\* lines 256-350: ops_netted (and the matches made) before the final filter
netting_pasada(operaciones) ==
    netting_activos([tabla |-> operaciones, matches |-> <<>>], operaciones,
                    unique_activos(operaciones))

\* variant: the fully netted rows are kept
cantidad_no_cero_mut(ops_netted) == ops_netted

\* ops_netted[ops_netted['Cantidad'] != 0]
cantidad_no_cero(ops_netted) ==
    LET Test(r) == RNe(r.Cantidad, Zero) IN SelectSeq(ops_netted, Test)

aplicar_netting_cross_currency(operaciones) ==
    cantidad_no_cero(netting_pasada(operaciones).tabla)

(***************************************************************************)
(* obtener_precio_activo                                                   *)
(***************************************************************************)
\* precios[precios['Activo'] == activo] restricted to Fecha <= fecha
precios_hasta(precios, activo, fecha) ==
    LET Test(p) == p.Activo = activo /\ p.Fecha <= fecha IN SelectSeq(precios, Test)

\* variant: only a 'dolar' label selects the foreign placeholder
dummy_de_mut(moneda_tipo) == IF moneda_tipo = "dolar" THEN "DUMMY USD" ELSE "DUMMY Pesos"

\* lines 226-229
dummy_de(moneda_tipo) == IF moneda_tipo = "pesos" THEN "DUMMY Pesos" ELSE "DUMMY USD"

\* variant: the placeholder price is converted whatever the currency class
convertir_dummy_mut(precio_dummy, moneda_tipo, fecha, tipo_cambio_data) ==
    LET tipo_cambio_row == tipo_cambio_hasta(tipo_cambio_data, fecha)
    IN  IF tipo_cambio_row # <<>>
        THEN LET tipo_cambio == Last(tipo_cambio_row).TipoCambio
             IN  IF notna(tipo_cambio) /\ RNe(tipo_cambio, Zero)
                 THEN RDiv(precio_dummy, tipo_cambio)
                 ELSE precio_dummy
        ELSE precio_dummy

\* lines 238-245: the placeholder price of a 'pesos' asset in foreign currency
convertir_dummy(precio_dummy, moneda_tipo, fecha, tipo_cambio_data) ==
    LET tipo_cambio_row == tipo_cambio_hasta(tipo_cambio_data, fecha)
    IN  IF moneda_tipo = "pesos" /\ tipo_cambio_row # <<>>
        THEN LET tipo_cambio == Last(tipo_cambio_row).TipoCambio
             IN  IF notna(tipo_cambio) /\ RNe(tipo_cambio, Zero)
                 THEN RDiv(precio_dummy, tipo_cambio)
                 ELSE precio_dummy
        ELSE precio_dummy

obtener_precio_activo(activo, fecha, precios, operaciones_df, tipo_cambio_data) ==
    LET available_prices == precios_hasta(precios, activo, fecha)
        DelActivo(r) == r.Activo = activo
        activo_ops == SelectSeq(operaciones_df, DelActivo)
    IN  IF available_prices # <<>> THEN Last(available_prices).Precio
        ELSE IF activo_ops # <<>>
        THEN LET moneda_tipo == detectar_moneda(Last(activo_ops).Moneda)
                 available_dummy_prices == precios_hasta(precios, dummy_de(moneda_tipo), fecha)
             IN  IF available_dummy_prices # <<>>
                 THEN convertir_dummy(Last(available_dummy_prices).Precio, moneda_tipo,
                                      fecha, tipo_cambio_data)
                 ELSE Zero
        ELSE Zero

(***************************************************************************)
(* calculate_current_portfolio                                             *)
(***************************************************************************)
\* last_reset_date = None
None == -1

Compra == <<"C","o","m","p","r","a">>
Venta == <<"V","e","n","t","a">>

\* lines 388-399: one transaction of the reset scan; s is
\* [running_nominals, last_reset_date]
reset_paso(s, op) ==
    LET previous_nominals == s.running_nominals
        running_nominals ==
            IF strip(op.Tipo) = Compra THEN RAdd(s.running_nominals, op.Cantidad)
            ELSE IF strip(op.Tipo) = Venta THEN RSub(s.running_nominals, op.Cantidad)
            ELSE s.running_nominals
    IN  IF RGt(previous_nominals, Zero) /\ RLe(running_nominals, Zero)
        THEN [running_nominals |-> Zero, last_reset_date |-> op.Fecha]
        ELSE [running_nominals |-> running_nominals, last_reset_date |-> s.last_reset_date]

RECURSIVE reset_desde(_, _)
reset_desde(s, ops) ==
    IF ops = <<>> THEN s ELSE reset_desde(reset_paso(s, Head(ops)), Tail(ops))

\* lines 384-399: the reset scan over asset_ops_until_date
reset_scan(ops) == reset_desde([running_nominals |-> Zero, last_reset_date |-> None], ops)

\* variant: the transactions dated at the reset are retained too
ops_since_reset_mut(asset_ops_until_date, last_reset_date) ==
    IF last_reset_date = None THEN asset_ops_until_date
    ELSE LET Desde(r) == r.Fecha >= last_reset_date IN SelectSeq(asset_ops_until_date, Desde)

\* lines 402-407
ops_since_reset(asset_ops_until_date, last_reset_date) ==
    IF last_reset_date = None THEN asset_ops_until_date
    ELSE LET Despues(r) == r.Fecha > last_reset_date IN SelectSeq(asset_ops_until_date, Despues)

es_ingreso(tipo_lower) == \E k \in keywords_ingreso : contains(tipo_lower, k)

\* lines 416-426: one transaction of the sums; a is
\* [nominals, invested, sales, dividends_coupons]
acumular_paso(a, op) ==
    LET tipo_lower == lower(strip(op.Tipo))
    IN  IF contains(tipo_lower, kw_compra)
        THEN [a EXCEPT !.nominals = RAdd(@, op.Cantidad), !.invested = RAdd(@, op.Monto)]
        ELSE IF contains(tipo_lower, kw_venta)
        THEN LET cantidad_venta ==
                     IF RLt(op.Cantidad, Zero) THEN RAbs(op.Cantidad) ELSE op.Cantidad
             IN  [a EXCEPT !.nominals = RSub(@, cantidad_venta), !.sales = RAdd(@, op.Monto)]
        ELSE IF es_ingreso(tipo_lower)
        THEN [a EXCEPT !.dividends_coupons = RAdd(@, op.Monto)]
        ELSE a

RECURSIVE acumular_desde(_, _)
acumular_desde(a, ops) ==
    IF ops = <<>> THEN a ELSE acumular_desde(acumular_paso(a, Head(ops)), Tail(ops))

\* lines 410-426
acumular(ops) ==
    acumular_desde([nominals |-> Zero, invested |-> Zero, sales |-> Zero,
                    dividends_coupons |-> Zero], ops)

\* variant: the proceeds of sales are subtracted from the gain
fila_portfolio_mut(asset, a, current_price) ==
    LET current_value == RMul(a.nominals, current_price)
        total_gain == RSub(RAdd(RSub(current_value, a.invested), a.dividends_coupons), a.sales)
    IN  [Activo |-> asset, Nominales |-> a.nominals, PrecioActual |-> current_price,
         ValorActual |-> current_value, Invertido |-> a.invested, Ventas |-> a.sales,
         DivCupones |-> a.dividends_coupons, GananciaTotal |-> total_gain]

\* lines 434-449: the report row of an asset with a position and a price
fila_portfolio(asset, a, current_price) ==
    LET current_value == RMul(a.nominals, current_price)
        total_gain == RAdd(RAdd(RSub(current_value, a.invested), a.dividends_coupons), a.sales)
    IN  [Activo |-> asset, Nominales |-> a.nominals, PrecioActual |-> current_price,
         ValorActual |-> current_value, Invertido |-> a.invested, Ventas |-> a.sales,
         DivCupones |-> a.dividends_coupons, GananciaTotal |-> total_gain]

\* variant: a closed position (quantity 0) passes
tiene_nominales_mut(current_nominals) == RGe(current_nominals, Zero)

\* line 429: if current_nominals > 0
tiene_nominales(current_nominals) == RGt(current_nominals, Zero)

\* variant: the price is not checked
tiene_precio_mut(current_price) == TRUE

\* line 433: if current_price > 0
tiene_precio(current_price) == RGt(current_price, Zero)

\* asset_ops[asset_ops['Fecha'] <= fecha_actual], asset_ops sorted by date
asset_ops_until(operaciones, asset, fecha) ==
    LET DelActivo(r) == r.Activo = asset
        Hasta(r) == r.Fecha <= fecha
    IN  SelectSeq(sort_values(SelectSeq(operaciones, DelActivo)), Hasta)

\* the body of "for asset in assets": the rows the asset adds to portfolio_data;
\* operaciones is the netted table
portfolio_activo(asset, operaciones, precios, fecha_actual, tipo_cambio_data) ==
    LET asset_ops_until_date == asset_ops_until(operaciones, asset, fecha_actual)
        last_reset_date == reset_scan(asset_ops_until_date).last_reset_date
        a == acumular(ops_since_reset(asset_ops_until_date, last_reset_date))
        current_price ==
            obtener_precio_activo(asset, fecha_actual, precios, operaciones, tipo_cambio_data)
    IN  IF asset_ops_until_date = <<>> THEN <<>>
        ELSE IF tiene_nominales(a.nominals) /\ tiene_precio(current_price)
        THEN <<fila_portfolio(asset, a, current_price)>>
        ELSE <<>>

RECURSIVE portfolio_activos(_, _, _, _, _)
portfolio_activos(assets, operaciones, precios, fecha_actual, tipo_cambio_data) ==
    IF assets = <<>> THEN <<>>
    ELSE portfolio_activo(Head(assets), operaciones, precios, fecha_actual, tipo_cambio_data)
         \o portfolio_activos(Tail(assets), operaciones, precios, fecha_actual,
                              tipo_cambio_data)

calculate_current_portfolio(operaciones, precios, fecha_actual, tipo_cambio_data) ==
    LET netted == aplicar_netting_cross_currency(operaciones)
    IN  portfolio_activos(unique_activos(netted), netted, precios, fecha_actual,
                          tipo_cambio_data)

(***************************************************************************)
(* calculate_portfolio_evolution                                           *)
(***************************************************************************)
\* lines 474-495: did the quantity, summed from the first transaction on, stand
\* above 0 after a transaction dated within the period
RECURSIVE tuvo_positivos_desde(_, _, _, _)
tuvo_positivos_desde(temp_nominals, ops, fecha_inicio, fecha_fin) ==
    IF ops = <<>> THEN FALSE
    ELSE LET op == Head(ops)
             tipo_lower == lower(strip(op.Tipo))
             cantidad_venta == IF RLt(op.Cantidad, Zero) THEN RAbs(op.Cantidad) ELSE op.Cantidad
             temp == IF contains(tipo_lower, kw_compra) THEN RAdd(temp_nominals, op.Cantidad)
                     ELSE IF contains(tipo_lower, kw_venta)
                     THEN RSub(temp_nominals, cantidad_venta)
                     ELSE temp_nominals
         IN  IF op.Fecha > fecha_fin THEN FALSE
             ELSE IF op.Fecha >= fecha_inicio /\ op.Fecha <= fecha_fin /\ RGt(temp, Zero)
             THEN TRUE
             ELSE tuvo_positivos_desde(temp, Tail(ops), fecha_inicio, fecha_fin)

\* lines 500-507: the quantity summed over the transactions dated before the
\* period
RECURSIVE nominales_antes_de(_, _, _)
nominales_antes_de(temp_nominals_inicio, ops, fecha_inicio) ==
    IF ops = <<>> THEN temp_nominals_inicio
    ELSE LET op == Head(ops)
         IN  IF op.Fecha >= fecha_inicio THEN temp_nominals_inicio
             ELSE nominales_antes_de(
                      IF strip(op.Tipo) = Compra THEN RAdd(temp_nominals_inicio, op.Cantidad)
                      ELSE IF strip(op.Tipo) = Venta THEN RSub(temp_nominals_inicio, op.Cantidad)
                      ELSE temp_nominals_inicio,
                      Tail(ops), fecha_inicio)

\* lines 473-514: had_positive_nominals_in_period
had_positive_nominals_in_period(asset_ops, fecha_inicio, fecha_fin) ==
    \/ tuvo_positivos_desde(Zero, asset_ops, fecha_inicio, fecha_fin)
    \/ RGt(nominales_antes_de(Zero, asset_ops, fecha_inicio), Zero)

\* lines 517-535: the reset scan over the transactions dated up to the start
RECURSIVE reset_hasta(_, _, _)
reset_hasta(s, ops, fecha_inicio) ==
    IF ops = <<>> THEN s
    ELSE IF Head(ops).Fecha > fecha_inicio THEN s
    ELSE reset_hasta(reset_paso(s, Head(ops)), Tail(ops), fecha_inicio)

\* lines 538-546
ops_since_reset_hasta(asset_ops, last_reset_date, fecha_fin) ==
    LET Hasta(r) == r.Fecha <= fecha_fin
        DespuesHasta(r) == r.Fecha > last_reset_date /\ r.Fecha <= fecha_fin
    IN  IF last_reset_date = None THEN SelectSeq(asset_ops, Hasta)
        ELSE SelectSeq(asset_ops, DespuesHasta)

\* lines 555 and 577-580
ops_until_inicio(ops_desde_reset, fecha_inicio) ==
    LET Test(r) == r.Fecha <= fecha_inicio IN SelectSeq(ops_desde_reset, Test)

ops_en_rango(ops_desde_reset, fecha_inicio, fecha_fin) ==
    LET Test(r) == r.Fecha >= fecha_inicio /\ r.Fecha <= fecha_fin
    IN  SelectSeq(ops_desde_reset, Test)

\* lines 609-613
RECURSIVE compras_en_periodo(_)
compras_en_periodo(ops) ==
    IF ops = <<>> THEN Zero
    ELSE LET resto == compras_en_periodo(Tail(ops))
         IN  IF contains(lower(strip(Head(ops).Tipo)), kw_compra)
             THEN RAdd(Head(ops).Monto, resto)
             ELSE resto

\* lines 599-638: the report row; ini and fin are the sums up to the start and
\* up to the end
fila_evolucion(asset, ini, fin, precio_inicio, precio_fin, compras) ==
    LET valor_inicio ==
            RAdd(IF RGt(ini.nominals, Zero) THEN RMul(ini.nominals, precio_inicio) ELSE Zero,
                 compras)
        valor_fin == RMul(fin.nominals, precio_fin)
        div_cupones_desde_inicio == RSub(fin.dividends_coupons, ini.dividends_coupons)
        ventas_desde_inicio == RSub(fin.sales, ini.sales)
        total_gain ==
            RAdd(RAdd(RSub(valor_fin, valor_inicio), div_cupones_desde_inicio),
                 ventas_desde_inicio)
    IN  [Activo |-> asset, Nominales |-> fin.nominals, PrecioActual |-> precio_fin,
         ValorActual |-> valor_fin, ValorInicio |-> valor_inicio,
         Ventas |-> ventas_desde_inicio, DivCupones |-> div_cupones_desde_inicio,
         GananciaTotal |-> total_gain]

\* the body of "for asset in assets": the rows the asset adds to
\* evolution_data; operaciones is the netted table
evolucion_activo(asset, operaciones, precios, fecha_inicio, fecha_fin, tipo_cambio_data) ==
    LET DelActivo(r) == r.Activo = asset
        asset_ops == sort_values(SelectSeq(operaciones, DelActivo))
        last_reset_date ==
            reset_hasta([running_nominals |-> Zero, last_reset_date |-> None], asset_ops,
                        fecha_inicio).last_reset_date
        ops_desde_reset == ops_since_reset_hasta(asset_ops, last_reset_date, fecha_fin)
        en_rango == ops_en_rango(ops_desde_reset, fecha_inicio, fecha_fin)
        ini == acumular(ops_until_inicio(ops_desde_reset, fecha_inicio))
        fin == acumular_desde(ini, en_rango)
        precio_inicio ==
            obtener_precio_activo(asset, fecha_inicio, precios, operaciones, tipo_cambio_data)
        precio_fin ==
            obtener_precio_activo(asset, fecha_fin, precios, operaciones, tipo_cambio_data)
    IN  IF had_positive_nominals_in_period(asset_ops, fecha_inicio, fecha_fin)
        THEN <<fila_evolucion(asset, ini, fin, precio_inicio, precio_fin,
                              compras_en_periodo(en_rango))>>
        ELSE <<>>

RECURSIVE evolucion_activos(_, _, _, _, _, _)
evolucion_activos(assets, operaciones, precios, fecha_inicio, fecha_fin, tipo_cambio_data) ==
    IF assets = <<>> THEN <<>>
    ELSE evolucion_activo(Head(assets), operaciones, precios, fecha_inicio, fecha_fin,
                          tipo_cambio_data)
         \o evolucion_activos(Tail(assets), operaciones, precios, fecha_inicio, fecha_fin,
                              tipo_cambio_data)

calculate_portfolio_evolution(operaciones, precios, fecha_inicio, fecha_fin, tipo_cambio_data) ==
    LET netted == aplicar_netting_cross_currency(operaciones)
    IN  evolucion_activos(unique_activos(netted), netted, precios, fecha_inicio, fecha_fin,
                          tipo_cambio_data)

(***************************************************************************)
(* mostrar_analisis_detallado_activo                                       *)
(***************************************************************************)
ValorInicial == <<"V","a","l","o","r"," ","I","n","i","c","i","a","l">>

\* lines 664-677: one transaction of the detail's reset scan
reset_paso_detalle(s, op) ==
    LET previous_nominals == s.running_nominals
        tipo_lower == lower(strip(op.Tipo))
        cantidad_venta == IF RLt(op.Cantidad, Zero) THEN RAbs(op.Cantidad) ELSE op.Cantidad
        running_nominals ==
            IF contains(tipo_lower, kw_compra) THEN RAdd(s.running_nominals, op.Cantidad)
            ELSE IF contains(tipo_lower, kw_venta) THEN RSub(s.running_nominals, cantidad_venta)
            ELSE s.running_nominals
    IN  IF RGt(previous_nominals, Zero) /\ RLe(running_nominals, Zero)
        THEN [running_nominals |-> Zero, last_reset_date |-> op.Fecha]
        ELSE [running_nominals |-> running_nominals, last_reset_date |-> s.last_reset_date]

\* lines 656-677: the reset scan over the transactions dated up to the start
RECURSIVE reset_hasta_detalle(_, _, _)
reset_hasta_detalle(s, ops, fecha_inicio) ==
    IF ops = <<>> THEN s
    ELSE IF Head(ops).Fecha > fecha_inicio THEN s
    ELSE reset_hasta_detalle(reset_paso_detalle(s, Head(ops)), Tail(ops), fecha_inicio)

\* lines 691-701: current_nominals_inicio
RECURSIVE nominales_al_inicio(_, _, _)
nominales_al_inicio(current_nominals_inicio, ops, fecha_inicio) ==
    IF ops = <<>> THEN current_nominals_inicio
    ELSE LET op == Head(ops)
             tipo_lower == lower(strip(op.Tipo))
             cantidad_venta == IF RLt(op.Cantidad, Zero) THEN RAbs(op.Cantidad) ELSE op.Cantidad
         IN  IF op.Fecha > fecha_inicio THEN current_nominals_inicio
             ELSE nominales_al_inicio(
                      IF contains(tipo_lower, kw_compra)
                      THEN RAdd(current_nominals_inicio, op.Cantidad)
                      ELSE IF contains(tipo_lower, kw_venta)
                      THEN RSub(current_nominals_inicio, cantidad_venta)
                      ELSE current_nominals_inicio,
                      Tail(ops), fecha_inicio)

\* lines 711-717
fila_valor_inicial(fecha_inicio, current_nominals_inicio, precio_inicio) ==
    [Fecha |-> fecha_inicio, Operacion |-> ValorInicial, Nominales |-> current_nominals_inicio,
     Precio |-> precio_inicio, Valor |-> RMul(current_nominals_inicio, precio_inicio)]

\* lines 726-732
fila_detalle(op) ==
    [Fecha |-> op.Fecha, Operacion |-> op.Tipo, Nominales |-> op.Cantidad,
     Precio |-> op.Precio, Valor |-> op.Monto]

\* detalle_data; lines 680-688 and 720-723 are the filters of the evolution query
mostrar_analisis_detallado_activo(operaciones, precios, activo, fecha_inicio, fecha_fin, tipo_cambio_data) ==
    LET netted == aplicar_netting_cross_currency(operaciones)
        DelActivo(r) == r.Activo = activo
        asset_ops == sort_values(SelectSeq(netted, DelActivo))
        last_reset_date ==
            reset_hasta_detalle([running_nominals |-> Zero, last_reset_date |-> None],
                                asset_ops, fecha_inicio).last_reset_date
        ops_desde_reset == ops_since_reset_hasta(asset_ops, last_reset_date, fecha_fin)
        current_nominals_inicio == nominales_al_inicio(Zero, ops_desde_reset, fecha_inicio)
        precio_inicio ==
            obtener_precio_activo(activo, fecha_inicio, precios, netted, tipo_cambio_data)
        ops_en_periodo == ops_en_rango(ops_desde_reset, fecha_inicio, fecha_fin)
    IN  (IF RGt(current_nominals_inicio, Zero)
         THEN <<fila_valor_inicial(fecha_inicio, current_nominals_inicio, precio_inicio)>>
         ELSE <<>>)
        \o [i \in DOMAIN ops_en_periodo |-> fila_detalle(ops_en_periodo[i])]

(***************************************************************************)
(* main                                                                    *)
(***************************************************************************)
\* variant: the conversion reads the stored dates again and moves them
convertir_fechas_mut(tabla) == [i \in DOMAIN tabla |-> [tabla[i] EXCEPT !.Fecha = @ + 1]]

\* tabla['Fecha'] = pd.to_datetime(tabla['Fecha'], dayfirst=True, errors='coerce'),
\* written to the caller's table: the column holds datetime64 values since
\* load_data, which the conversion returns as they are
convertir_fechas(tabla) == [i \in DOMAIN tabla |-> [tabla[i] EXCEPT !.Fecha = @]]

\* variant: the reports are computed whatever load_data returned
tablas_cargadas_mut(carga) == TRUE

\* line 827: operaciones is not None and precios is not None and
\* tipo_cambio_data is not None
tablas_cargadas(carga) == carga.tablas

(***************************************************************************)
(* The program's state                                                     *)
(*                                                                         *)
(* hoja              operaciones_mapped: the rows load_data read           *)
(* operaciones       the table load_data returns (prices adjusted)         *)
(* precios           precios_long                                          *)
(* tipo_cambio_data  the exchange-rate series                              *)
(* consulta          the last operation run on the loaded tables           *)
(* ops_netted        the netted table that operation worked on             *)
(* matches           the nettings it made (see netting_ventas)             *)
(* portfolio_df      the report it returned                                *)
(* carga             the outcome of load_data: tablas is whether it        *)
(*                   returned the three tables (FALSE: None, None, None;   *)
(*                   the table variables then keep what main can no longer *)
(*                   reach), errores the messages shown with st.error      *)
(***************************************************************************)
VARIABLES hoja, operaciones, precios, tipo_cambio_data, consulta, ops_netted, matches,
          portfolio_df, carga

vars == <<hoja, operaciones, precios, tipo_cambio_data, consulta, ops_netted, matches,
          portfolio_df, carga>>

MaxOps == 3

Cupon == <<"C","u","p","ó","n">>
Dolar == <<"D","ó","l","a","r">>
Pesos == <<"P","e","s","o","s">>

Fila(fecha, tipo, activo, cantidad, precio, monto, moneda) ==
    [Fecha |-> fecha, Tipo |-> tipo, Activo |-> activo, Cantidad |-> cantidad,
     Precio |-> precio, Monto |-> monto, Moneda |-> moneda]

FilaPrecio(fecha, activo, precio) == [Fecha |-> fecha, Activo |-> activo, Precio |-> precio]

FilaTC(fecha, tipo_cambio) == [Fecha |-> fecha, TipoCambio |-> tipo_cambio]

\* day numbers of 2025: Jan 1, Feb 1, Mar 1, Mar 15, Apr 1
Ene1 == 0 + 1
Feb1 == 31 + 1
Mar1 == 31 + 28 + 1
Mar15 == 31 + 28 + 15
Abr1 == 31 + 28 + 31 + 1

\* the rows a ledger of the valuation runs is made of
Filas ==
    { Fila(Ene1, Compra, "X", R(100), R(10), R(1000), Dolar),
      Fila(Feb1, Venta, "X", R(-100), R(12), R(1200), Dolar),
      Fila(Feb1, Venta, "X", R(100), R(12), R(1200), Dolar),
      Fila(Mar15, Compra, "X", R(50), R(12), R(600), Dolar),
      Fila(Mar15, Venta, "X", R(-30), R(14), R(420), Dolar),
      Fila(Feb1, Cupon, "X", NaN, NaN, R(30), Dolar),
      Fila(Ene1, Compra, "Y", R(10), R(2000), R(20000), Pesos) }

FechasConsulta == {Feb1, Mar1, Abr1}

\* the 'Precios' sheets of the valuation runs: the long price table and the
\* exchange-rate column read from the same sheet
HojasPrecios ==
    { [precios |-> <<FilaPrecio(Ene1, "X", R(11)), FilaPrecio(Mar15, "X", R(13)),
                     FilaPrecio(Ene1, "Y", R(25))>>,
       tipo_cambio |-> <<FilaTC(Ene1, R(100))>>],
      [precios |-> <<FilaPrecio(Ene1, "DUMMY USD", R(7)),
                     FilaPrecio(Mar1, "DUMMY Pesos", R(700))>>,
       tipo_cambio |-> <<FilaTC(Ene1, R(100))>>],
      [precios |-> <<FilaPrecio(Abr1, "X", R(13)), FilaPrecio(Ene1, "Y", Zero)>>,
       tipo_cambio |-> <<>>] }

SinConsulta == [tipo |-> "ninguna", fecha |-> 0]

InitDe(hojas_precios) ==
    /\ hoja = <<>>
    /\ operaciones = <<>>
    /\ \E h \in hojas_precios : precios = h.precios /\ tipo_cambio_data = h.tipo_cambio
    /\ consulta = SinConsulta
    /\ ops_netted = <<>>
    /\ matches = <<>>
    /\ portfolio_df = <<>>
    /\ carga = [tablas |-> TRUE, errores |-> <<>>]

\* load_data on a file that holds one more row, which gets the next index label
CargarDe(filas) ==
    /\ Len(hoja) < MaxOps
    /\ \E f \in filas :
          LET nueva == [idx |-> Len(hoja) + 1] @@ f
          IN  /\ hoja' = Append(hoja, nueva)
              /\ operaciones' = ajustar_precios_operaciones(Append(hoja, nueva), tipo_cambio_data)
    /\ consulta' = SinConsulta
    /\ ops_netted' = <<>>
    /\ matches' = <<>>
    /\ portfolio_df' = <<>>
    /\ carga' = [tablas |-> TRUE, errores |-> <<>>]
    /\ UNCHANGED <<precios, tipo_cambio_data>>

\* calculate_current_portfolio(operaciones, precios, fecha_actual, tipo_cambio_data)
CalcularActual ==
    /\ tablas_cargadas(carga)
    /\ \E fecha_actual \in FechasConsulta :
          /\ consulta' = [tipo |-> "actual", fecha |-> fecha_actual]
          /\ portfolio_df' =
                calculate_current_portfolio(operaciones, precios, fecha_actual, tipo_cambio_data)
    /\ ops_netted' = aplicar_netting_cross_currency(operaciones)
    /\ matches' = netting_pasada(operaciones).matches
    /\ operaciones' = convertir_fechas(operaciones)
    /\ precios' = convertir_fechas(precios)
    /\ UNCHANGED <<hoja, tipo_cambio_data, carga>>

Init == InitDe(HojasPrecios)

Cargar == CargarDe(Filas)

Next == Cargar \/ CalcularActual

Spec == Init /\ [][Next]_vars

(***************************************************************************)
(* Netting runs: the netting pass on ledgers of one asset around a 7-day   *)
(* window (Jun 10, Jun 12, Jun 17 = Jun 10 + 7, Jun 18 = Jun 10 + 8).      *)
(***************************************************************************)
Jun10 == 31 + 28 + 31 + 30 + 31 + 10
Jun12 == Jun10 + 2
Jun17 == Jun10 + 7
Jun18 == Jun10 + 8

USD == <<"U","S","D">>

FilasNetting ==
    { Fila(Jun10, Compra, "A", R(100), R(100), R(10000), Dolar),
      Fila(Jun12, Venta, "A", R(-100), R(15000), R(1500000), Pesos),
      Fila(Jun17, Venta, "A", R(-30), R(15000), R(450000), Pesos),
      Fila(Jun18, Venta, "A", R(-30), R(15000), R(450000), Pesos),
      Fila(Jun12, Venta, "A", R(-100), R(100), R(10000), USD),
      Fila(Jun10, Venta, "A", R(-40), R(100), R(4000), NA),
      Fila(Jun17, Compra, "A", R(50), R(15000), R(750000), Pesos),
      Fila(Jun18, Compra, "A", R(50), R(15000), R(750000), Pesos),
      Fila(Jun12, Compra, "A", R(20), R(100), R(2000), NA),
      Fila(Jun12, Venta, "B", R(-100), R(15000), R(1500000), Pesos),
      Fila(Jun12, Cupon, "A", Zero, NaN, R(3000), Pesos) }

SinPrecios == { [precios |-> <<>>, tipo_cambio |-> <<>>] }

InitNetting == InitDe(SinPrecios)

CargarNetting == CargarDe(FilasNetting)

\* operaciones = aplicar_netting_cross_currency(operaciones), the first step of
\* every query
Netting ==
    /\ consulta.tipo = "ninguna"
    /\ consulta' = [tipo |-> "netting", fecha |-> 0]
    /\ ops_netted' = aplicar_netting_cross_currency(operaciones)
    /\ matches' = netting_pasada(operaciones).matches
    /\ UNCHANGED <<hoja, operaciones, precios, tipo_cambio_data, portfolio_df, carga>>

NextNetting == CargarNetting \/ Netting

SpecNetting == InitNetting /\ [][NextNetting]_vars

(***************************************************************************)
(* Normalizer runs: load_data on ledgers with rows in local and foreign    *)
(* currency, under exchange-rate series with no rate, one rate, two rates, *)
(* a zero rate, and a zero rate followed by a nonzero one.                 *)
(***************************************************************************)
FilasAjuste ==
    { Fila(Mar1, Compra, "X", R(100), R(1000), R(100000), Pesos),
      Fila(Abr1, Venta, "X", R(-50), R(1200), R(60000), Pesos),
      Fila(Ene1, Compra, "X", R(100), R(900), R(90000), Pesos),
      Fila(Mar1, Cupon, "X", NaN, NaN, R(3000), Pesos),
      Fila(Mar1, Compra, "X", R(10), R(10), R(100), Dolar),
      Fila(Abr1, Compra, "X", R(10), R(10), R(100), NA) }

HojasTC ==
    { [precios |-> <<>>, tipo_cambio |-> <<>>],
      [precios |-> <<>>, tipo_cambio |-> <<FilaTC(Feb1, R(100))>>],
      [precios |-> <<>>, tipo_cambio |-> <<FilaTC(Feb1, R(100)), FilaTC(Mar15, R(200))>>],
      [precios |-> <<>>, tipo_cambio |-> <<FilaTC(Feb1, Zero)>>],
      [precios |-> <<>>, tipo_cambio |-> <<FilaTC(Feb1, Zero), FilaTC(Mar15, R(200))>>] }

InitAjuste == InitDe(HojasTC)

CargarAjuste == CargarDe(FilasAjuste)

NextAjuste == CargarAjuste

SpecAjuste == InitAjuste /\ [][NextAjuste]_vars

(***************************************************************************)
(* Resolver runs: obtener_precio_activo as calculate_current_portfolio     *)
(* calls it (on the netted table), under price sheets in ascending and in  *)
(* descending date order, with and without placeholder series and rates.   *)
(* The long price table holds the sheet column by column.                  *)
(***************************************************************************)
FilasResolver ==
    { Fila(Ene1, Compra, "X", R(100), R(10), R(1000), Dolar),
      Fila(Feb1, Compra, "X", R(100), R(1000), R(100000), Pesos),
      Fila(Mar1, Compra, "X", R(100), R(10), R(1000), NA),
      Fila(Ene1, Compra, "Y", R(10), R(20), R(200), Dolar) }

HojasResolver ==
    { [precios |-> <<FilaPrecio(Ene1, "X", R(11)), FilaPrecio(Mar15, "X", R(13))>>,
       tipo_cambio |-> <<FilaTC(Ene1, R(100))>>],
      [precios |-> <<FilaPrecio(Mar15, "X", R(13)), FilaPrecio(Ene1, "X", R(11)),
                     FilaPrecio(Mar15, "DUMMY USD", R(8)), FilaPrecio(Ene1, "DUMMY USD", R(7))>>,
       tipo_cambio |-> <<FilaTC(Mar15, R(200)), FilaTC(Ene1, R(100))>>],
      [precios |-> <<FilaPrecio(Abr1, "X", R(13)),
                     FilaPrecio(Ene1, "DUMMY USD", R(7)), FilaPrecio(Mar1, "DUMMY USD", R(8)),
                     FilaPrecio(Ene1, "DUMMY Pesos", R(900)),
                     FilaPrecio(Mar1, "DUMMY Pesos", R(1000))>>,
       tipo_cambio |-> <<FilaTC(Ene1, R(100)), FilaTC(Mar1, R(200))>>],
      [precios |-> <<FilaPrecio(Ene1, "DUMMY USD", R(7)),
                     FilaPrecio(Ene1, "DUMMY Pesos", R(900))>>,
       tipo_cambio |-> <<>>],
      [precios |-> <<FilaPrecio(Ene1, "DUMMY USD", R(7)),
                     FilaPrecio(Ene1, "DUMMY Pesos", R(900))>>,
       tipo_cambio |-> <<FilaTC(Ene1, Zero)>>] }

ActivosConsulta == {"X", "Y"}

InitResolver == InitDe(HojasResolver)

CargarResolver == CargarDe(FilasResolver)

\* lines 365 and 431: the price of an asset at a date, resolved against the
\* netted table
ObtenerPrecio ==
    /\ \E activo \in ActivosConsulta, fecha \in FechasConsulta :
          consulta' =
              [tipo |-> "precio", fecha |-> fecha, activo |-> activo,
               precio |-> obtener_precio_activo(activo, fecha, precios,
                                                aplicar_netting_cross_currency(operaciones),
                                                tipo_cambio_data)]
    /\ ops_netted' = aplicar_netting_cross_currency(operaciones)
    /\ matches' = netting_pasada(operaciones).matches
    /\ UNCHANGED <<hoja, operaciones, precios, tipo_cambio_data, portfolio_df, carga>>

NextResolver == CargarResolver \/ ObtenerPrecio

SpecResolver == InitResolver /\ [][NextResolver]_vars

(***************************************************************************)
(* Evolution runs: the ledgers and price sheets of the valuation runs,     *)
(* queried over a period; periods start on a date with transactions (Jan   *)
(* 1, Feb 1) and on a date with none (Mar 1).                              *)
(***************************************************************************)
RangosConsulta == { <<Ene1, Mar1>>, <<Feb1, Abr1>>, <<Mar1, Abr1>> }

\* calculate_portfolio_evolution(operaciones, precios, fecha_inicio, fecha_fin,
\* tipo_cambio_data)
CalcularEvolucion ==
    /\ tablas_cargadas(carga)
    /\ \E rango \in RangosConsulta :
          /\ consulta' = [tipo |-> "evolucion", fecha |-> rango[2], inicio |-> rango[1]]
          /\ portfolio_df' =
                calculate_portfolio_evolution(operaciones, precios, rango[1], rango[2],
                                              tipo_cambio_data)
    /\ ops_netted' = aplicar_netting_cross_currency(operaciones)
    /\ matches' = netting_pasada(operaciones).matches
    /\ operaciones' = convertir_fechas(operaciones)
    /\ precios' = convertir_fechas(precios)
    /\ UNCHANGED <<hoja, tipo_cambio_data, carga>>

NextEvolucion == Cargar \/ CalcularEvolucion

SpecEvolucion == Init /\ [][NextEvolucion]_vars

(***************************************************************************)
(* Main runs: one request of main after another.  Each request loads the   *)
(* file (the load succeeds and the file holds one more row, or it fails),  *)
(* and after a successful load computes the current report, the evolution  *)
(* report and the detail of an asset selected in the evolution report.     *)
(* The ledgers hold Buys on Jan 1 and Mar 1, a Sell in the other currency  *)
(* five days after the second, and rows labelled 'COMPRA' and 'Venta de    *)
(* títulos'.                                                               *)
(***************************************************************************)
Mar6 == 31 + 28 + 6

COMPRA == <<"C","O","M","P","R","A">>
VentaDeTitulos == <<"V","e","n","t","a"," ","d","e"," ","t","í","t","u","l","o","s">>

FilasMain ==
    { Fila(Ene1, Compra, "X", R(100), R(10), R(1000), Dolar),
      Fila(Mar1, Compra, "X", R(100), R(10), R(1000), Dolar),
      Fila(Mar6, Venta, "X", R(-40), R(1300), R(52000), Pesos),
      Fila(Ene1, COMPRA, "X", R(100), R(10), R(1000), Dolar),
      Fila(Feb1, VentaDeTitulos, "X", R(100), R(12), R(1200), Dolar) }

HojasMain ==
    { [precios |-> <<FilaPrecio(Ene1, "X", R(11)), FilaPrecio(Mar15, "X", R(13))>>,
       tipo_cambio |-> <<FilaTC(Ene1, R(100))>>] }

\* the messages of load_data's two except branches
ErroresDeCarga == {"No se encontró el archivo", "Error al cargar el archivo"}

InitMain == InitDe(HojasMain)

CargarMain == CargarDe(FilasMain)

\* load_data on a file that is missing or cannot be read: the exception is
\* caught, the message is shown and None, None, None is returned (lines
\* 185-190); main then takes its else branch (lines 986-987)
CargarFalla ==
    /\ \E mensaje \in ErroresDeCarga :
          carga' = [tablas |-> FALSE, errores |-> <<mensaje, "Error al cargar los datos">>]
    /\ consulta' = SinConsulta
    /\ ops_netted' = <<>>
    /\ matches' = <<>>
    /\ portfolio_df' = <<>>
    /\ UNCHANGED <<hoja, operaciones, precios, tipo_cambio_data>>

\* lines 970-985: an asset of the evolution report just computed is selected and
\* mostrar_analisis_detallado_activo(operaciones, precios, activo_seleccionado,
\* fecha_inicio, fecha_fin, tipo_cambio_data) builds its detail
MostrarDetalle ==
    /\ tablas_cargadas(carga)
    /\ consulta.tipo = "evolucion"
    /\ \E i \in DOMAIN portfolio_df :
          LET activo_seleccionado == portfolio_df[i].Activo
          IN  /\ consulta' = [tipo |-> "detalle", fecha |-> consulta.fecha,
                              inicio |-> consulta.inicio, activo |-> activo_seleccionado]
              /\ portfolio_df' =
                    mostrar_analisis_detallado_activo(operaciones, precios, activo_seleccionado,
                                                      consulta.inicio, consulta.fecha,
                                                      tipo_cambio_data)
    /\ ops_netted' = aplicar_netting_cross_currency(operaciones)
    /\ matches' = netting_pasada(operaciones).matches
    /\ operaciones' = convertir_fechas(operaciones)
    /\ precios' = convertir_fechas(precios)
    /\ UNCHANGED <<hoja, tipo_cambio_data, carga>>

NextMain == CargarMain \/ CargarFalla \/ CalcularActual \/ CalcularEvolucion \/ MostrarDetalle

SpecMain == InitMain /\ [][NextMain]_vars

(***************************************************************************)
(* Classification runs: load_data on ledgers whose rows differ in the      *)
(* currency label only, under one exchange rate dated before every row.    *)
(***************************************************************************)
Etiquetas ==
    { <<" ","U","S","D"," ">>, <<"D","Ó","L","A","R">>, <<"D","o","l","a","r">>,
      <<"u","$","s">>, <<"U","$">>, <<"U","S","$">>, <<"B","i","l","l","e","t","e">>,
      Pesos, <<"P","e","s","o">>, <<"A","R","S">>,
      <<"P","e","s","o","s"," ","U","S","D">>, <<"D","o","l","l","a","r","s">>,
      <<"E","u","r","o">>, NA }

FilasMoneda == { Fila(Mar1, Compra, "X", R(100), R(1000), R(100000), e) : e \in Etiquetas }

HojasMoneda == { [precios |-> <<>>, tipo_cambio |-> <<FilaTC(Feb1, R(100))>>] }

InitMoneda == InitDe(HojasMoneda)

CargarMoneda == CargarDe(FilasMoneda)

NextMoneda == CargarMoneda

SpecMoneda == InitMoneda /\ [][NextMoneda]_vars

(***************************************************************************)
(* Vocabulary of the properties.  These definitions restate what the       *)
(* specification says in terms of sets of rows; they take nothing from the *)
(* loops above.                                                            *)
(***************************************************************************)
ConIdx(t) == [i \in DOMAIN t |-> [idx |-> i] @@ t[i]]

FilasDe(t) == {t[i] : i \in DOMAIN t}

RECURSIVE Suma(_, _)
Suma(f, S) ==
    IF S = {} THEN Zero
    ELSE LET x == CHOOSE y \in S : TRUE IN RAdd(f[x], Suma(f, S \ {x}))

\* kind of a transaction: case-insensitive substring match
EsBuy(r) == contains(lower(r.Tipo), kw_compra)
EsSell(r) == ~EsBuy(r) /\ contains(lower(r.Tipo), kw_venta)
EsIncome(r) == ~EsBuy(r) /\ ~contains(lower(r.Tipo), kw_venta) /\ es_ingreso(lower(r.Tipo))

\* the date of the last reset the scan of an asset observed, over the netted
\* table of the last query
UltimoReset(asset, fecha) ==
    reset_scan(asset_ops_until(ops_netted, asset, fecha)).last_reset_date

\* the retained operations of an asset: dated at or before the evaluation
\* date and, when a reset was observed, strictly after it
Retenidas(asset, fecha) ==
    LET lr == UltimoReset(asset, fecha)
    IN  { r \in FilasDe(ops_netted) :
            /\ r.Activo = asset
            /\ r.Fecha <= fecha
            /\ (lr = None \/ r.Fecha > lr) }

Cantidades(S) == [r \in S |-> r.Cantidad]
Magnitudes(S) == [r \in S |-> RAbs(r.Cantidad)]
Montos(S) == [r \in S |-> r.Monto]

SoloBuy(S) == {r \in S : EsBuy(r)}
SoloSell(S) == {r \in S : EsSell(r)}
SoloIncome(S) == {r \in S : EsIncome(r)}

\* Buys added, absolute value of Sells subtracted
CantidadNeta(S) ==
    RSub(Suma(Cantidades(SoloBuy(S)), SoloBuy(S)), Suma(Magnitudes(SoloSell(S)), SoloSell(S)))

SumaMontos(S) == Suma(Montos(S), S)

ActivosDe(t) == {t[i].Activo : i \in DOMAIN t}

EnReporte(asset) == \E i \in DOMAIN portfolio_df : portfolio_df[i].Activo = asset

PrecioResuelto(asset, fecha) ==
    obtener_precio_activo(asset, fecha, precios, ops_netted, tipo_cambio_data)

HizoActual == consulta.tipo = "actual"

(***************************************************************************)
(* C1.  Scenario: Buy(Jan 1, 100, 1000), Sell(Feb 1, -100, 1200) of X.     *)
(* The query at Mar 1 records a reset at Feb 1 and reports no X; after     *)
(* Buy(Mar 15, 50, 600) the query at Apr 1 reports X with quantity 50 and  *)
(* capital invested 600.                                                   *)
(***************************************************************************)
C1_Compra1 == Fila(Ene1, Compra, "X", R(100), R(10), R(1000), Dolar)
C1_Venta == Fila(Feb1, Venta, "X", R(-100), R(12), R(1200), Dolar)
C1_Compra2 == Fila(Mar15, Compra, "X", R(50), R(12), R(600), Dolar)

\* C1: the scenario's reset at Feb 1, the absence of X at Mar 1 and the row
\* (quantity 50, invested 600) at Apr 1
C1_EscenarioReset ==
    /\ ( /\ hoja = ConIdx(<<C1_Compra1, C1_Venta>>)
         /\ consulta = [tipo |-> "actual", fecha |-> Mar1]
         /\ RGt(PrecioResuelto("X", Mar1), Zero) )
       => ( /\ UltimoReset("X", Mar1) = Feb1
            /\ ~EnReporte("X") )
    /\ ( /\ hoja = ConIdx(<<C1_Compra1, C1_Venta, C1_Compra2>>)
         /\ consulta = [tipo |-> "actual", fecha |-> Abr1]
         /\ RGt(PrecioResuelto("X", Abr1), Zero) )
       => \E i \in DOMAIN portfolio_df :
             /\ portfolio_df[i].Activo = "X"
             /\ portfolio_df[i].Nominales = R(50)
             /\ portfolio_df[i].Invertido = R(600)

(***************************************************************************)
(* C2.  Positive-only inclusion.                                           *)
(***************************************************************************)
\* C2: an asset whose post-reset quantity is 0 or negative is not in the
\* current-composition report, and every reported row has Nominales > 0
C2_SoloPositivos ==
    HizoActual =>
        /\ \A asset \in ActivosDe(ops_netted) :
              RLe(CantidadNeta(Retenidas(asset, consulta.fecha)), Zero) => ~EnReporte(asset)
        /\ \A i \in DOMAIN portfolio_df : RGt(portfolio_df[i].Nominales, Zero)

\* an asset with a price whose position is closed (quantity 0 or below) was
\* left out of a report that lists another asset
C2_Witness ==
    /\ HizoActual
    /\ portfolio_df # <<>>
    /\ \E asset \in ActivosDe(ops_netted) :
          /\ RLe(CantidadNeta(Retenidas(asset, consulta.fecha)), Zero)
          /\ RGt(PrecioResuelto(asset, consulta.fecha), Zero)
          /\ ~EnReporte(asset)

(***************************************************************************)
(* C3.  The retained operation set.                                        *)
(***************************************************************************)
\* C3: with no reset observed every transaction of the asset dated at or
\* before the evaluation date is retained; with a reset, exactly those dated
\* strictly after it; the reported quantity, invested capital, proceeds and
\* income are those of the retained transactions alone
C3_RetenidasTrasReset ==
    HizoActual =>
        \A asset \in ActivosDe(ops_netted) :
            LET hasta == asset_ops_until(ops_netted, asset, consulta.fecha)
                lr == reset_scan(hasta).last_reset_date
                ret == FilasDe(ops_since_reset(hasta, lr))
                delActivo == { r \in FilasDe(ops_netted) :
                                 r.Activo = asset /\ r.Fecha <= consulta.fecha }
            IN  /\ lr = None => ret = delActivo
                /\ lr # None => ret = { r \in delActivo : r.Fecha > lr }
                /\ \A i \in DOMAIN portfolio_df :
                      portfolio_df[i].Activo = asset =>
                          LET S == { r \in delActivo : lr = None \/ r.Fecha > lr }
                          IN  /\ portfolio_df[i].Nominales = CantidadNeta(S)
                              /\ portfolio_df[i].Invertido = SumaMontos(SoloBuy(S))
                              /\ portfolio_df[i].Ventas = SumaMontos(SoloSell(S))
                              /\ portfolio_df[i].DivCupones = SumaMontos(SoloIncome(S))

\* a reported asset whose scan observed a reset, with a transaction dated at
\* the reset and one dated after it
C3_Witness ==
    /\ HizoActual
    /\ \E asset \in ActivosDe(ops_netted) :
          /\ EnReporte(asset)
          /\ UltimoReset(asset, consulta.fecha) # None
          /\ \E r \in FilasDe(ops_netted) :
                r.Activo = asset /\ r.Fecha = UltimoReset(asset, consulta.fecha)
          /\ Retenidas(asset, consulta.fecha) # {}

(***************************************************************************)
(* C4.  The figures of a row of the current-composition report.            *)
(***************************************************************************)
\* C4: Nominales, Invertido, Ventas and Div - Cupones are the sums over the
\* retained Buys, Sells and Income; Valor Actual = Nominales x Precio Actual;
\* Ganancia Total = (Valor Actual - Invertido) + Div - Cupones + Ventas
C4_CifrasDeLaFila ==
    HizoActual =>
        \A i \in DOMAIN portfolio_df :
            LET row == portfolio_df[i]
                S == Retenidas(row.Activo, consulta.fecha)
            IN  /\ row.Nominales = CantidadNeta(S)
                /\ row.Invertido = SumaMontos(SoloBuy(S))
                /\ row.Ventas = SumaMontos(SoloSell(S))
                /\ row.DivCupones = SumaMontos(SoloIncome(S))
                /\ row.ValorActual = RMul(row.Nominales, row.PrecioActual)
                /\ row.GananciaTotal =
                      RAdd(RAdd(RSub(row.ValorActual, row.Invertido), row.DivCupones),
                           row.Ventas)

\* a reported row with purchases, sales and income
C4_Witness ==
    /\ HizoActual
    /\ \E i \in DOMAIN portfolio_df :
          /\ RGt(portfolio_df[i].Invertido, Zero)
          /\ RGt(portfolio_df[i].Ventas, Zero)
          /\ RGt(portfolio_df[i].DivCupones, Zero)

(***************************************************************************)
(* C5.  An open position with no price.                                    *)
(***************************************************************************)
SinPrecioHasta(asset, fecha) ==
    /\ precios_hasta(precios, asset, fecha) = <<>>
    /\ precios_hasta(precios, "DUMMY USD", fecha) = <<>>
    /\ precios_hasta(precios, "DUMMY Pesos", fecha) = <<>>

\* C5: an asset with a positive open quantity and neither a direct nor a
\* placeholder price at or before the date resolves to price 0 and is not
\* reported; no reported row has price 0
C5_SinPrecioExcluido ==
    HizoActual =>
        /\ \A asset \in ActivosDe(ops_netted) :
              ( /\ RGt(CantidadNeta(Retenidas(asset, consulta.fecha)), Zero)
                /\ SinPrecioHasta(asset, consulta.fecha) )
              => ( /\ PrecioResuelto(asset, consulta.fecha) = Zero
                   /\ ~EnReporte(asset) )
        /\ \A i \in DOMAIN portfolio_df : RNe(portfolio_df[i].PrecioActual, Zero)

\* an open position with no price at the date was left out of the report
C5_Witness ==
    /\ HizoActual
    /\ \E asset \in ActivosDe(ops_netted) :
          /\ RGt(CantidadNeta(Retenidas(asset, consulta.fecha)), Zero)
          /\ SinPrecioHasta(asset, consulta.fecha)
          /\ ~EnReporte(asset)

(***************************************************************************)
(* Netting: before and after                                               *)
(***************************************************************************)
Neteado == consulta.tipo = "netting"

\* the row of the input with index label i
Entrada(i) == CHOOSE r \in FilasDe(operaciones) : r.idx = i

\* the quantity the output holds for the input row r: 0 when it was removed
CantidadFinal(r) ==
    IF \E q \in FilasDe(ops_netted) : q.idx = r.idx
    THEN (CHOOSE q \in FilasDe(ops_netted) : q.idx = r.idx).Cantidad
    ELSE Zero

\* how much of its magnitude netting took from the row r
Quitado(r) == RSub(RAbs(r.Cantidad), RAbs(CantidadFinal(r)))

QuitadoDe(S) == Suma([r \in S |-> Quitado(r)], S)

DelActivo(asset) == {r \in FilasDe(operaciones) : r.Activo = asset}

Reducida(r) == CantidadFinal(r) # r.Cantidad

Dias(c, v) == v.Fecha - c.Fecha

(***************************************************************************)
(* C6.  Netting conservation.                                              *)
(***************************************************************************)
\* C6: for every asset the total quantity netting removes from the Buy rows
\* equals the total magnitude it removes from the Sell rows
C6_Conservacion ==
    Neteado =>
        \A asset \in ActivosDe(operaciones) :
            QuitadoDe(SoloBuy(DelActivo(asset))) = QuitadoDe(SoloSell(DelActivo(asset)))

(***************************************************************************)
(* C7.  Window exclusivity.                                                *)
(***************************************************************************)
C7_Compra == Fila(Jun10, Compra, "A", R(100), R(100), R(10000), Dolar)
C7_VentaDia7 == Fila(Jun17, Venta, "A", R(-30), R(15000), R(450000), Pesos)
C7_VentaDia8 == Fila(Jun18, Venta, "A", R(-30), R(15000), R(450000), Pesos)

\* C7: every netting pairs a Buy with a Sell dated within 7 days of it, a Buy
\* is reduced only when such a Sell exists; a different-currency Sell 7 days
\* after the Buy is netted, one 8 days after it is not
C7_SoloEnVentana ==
    Neteado =>
        /\ \A k \in DOMAIN matches :
              LET d == Dias(Entrada(matches[k].compra), Entrada(matches[k].venta))
              IN  d >= -7 /\ d <= 7
        /\ \A c \in SoloBuy(FilasDe(operaciones)) :
              Reducida(c) =>
                  \E v \in SoloSell(DelActivo(c.Activo)) : Dias(c, v) >= -7 /\ Dias(c, v) <= 7
        /\ hoja = ConIdx(<<C7_Compra, C7_VentaDia7>>)
              => ops_netted = <<[operaciones[1] EXCEPT !.Cantidad = R(70), !.Monto = R(7000)]>>
        /\ hoja = ConIdx(<<C7_Compra, C7_VentaDia8>>) => ops_netted = operaciones

\* the Buy was netted against the Sell of day 7 and the Sell of day 8 is intact
C7_Witness ==
    /\ Neteado
    /\ hoja = ConIdx(<<C7_Compra, C7_VentaDia7, C7_VentaDia8>>)
    /\ ops_netted = <<[operaciones[1] EXCEPT !.Cantidad = R(70), !.Monto = R(7000)],
                      operaciones[3]>>

(***************************************************************************)
(* C8.  Currency mismatch requirement.                                     *)
(***************************************************************************)
Clase(r) == detectar_moneda(r.Moneda)

\* C8: a Buy and a Sell whose currency labels classify alike are never
\* netted against each other; an asset whose rows all classify alike leaves
\* netting unchanged
C8_MonedaDistinta ==
    Neteado =>
        /\ \A k \in DOMAIN matches :
              Clase(Entrada(matches[k].compra)) # Clase(Entrada(matches[k].venta))
        /\ \A asset \in ActivosDe(operaciones) :
              (\A r1, r2 \in DelActivo(asset) : Clase(r1) = Clase(r2))
              => \A r \in DelActivo(asset) : RNe(r.Cantidad, Zero) => r \in FilasDe(ops_netted)

\* a Buy and a Sell of one asset, two days apart, both Foreign under different
\* labels, both intact after netting
C8_Witness ==
    /\ Neteado
    /\ \E c \in SoloBuy(FilasDe(operaciones)), v \in SoloSell(FilasDe(operaciones)) :
          /\ c.Activo = v.Activo
          /\ Clase(c) = "dolar" /\ Clase(v) = "dolar" /\ c.Moneda # v.Moneda
          /\ RGt(c.Cantidad, Zero) /\ RLt(v.Cantidad, Zero)
          /\ Dias(c, v) = 2
          /\ c \in FilasDe(ops_netted) /\ v \in FilasDe(ops_netted)

(***************************************************************************)
(* C9.  Fully netted rows are dropped.                                     *)
(***************************************************************************)
C9_Compra == Fila(Jun10, Compra, "A", R(100), R(100), R(10000), Dolar)
C9_Venta == Fila(Jun12, Venta, "A", R(-100), R(15000), R(1500000), Pesos)

\* C9: the netted table holds no transaction of quantity 0; Buy(Jun 10, 100,
\* 'Dólar') and Sell(Jun 12, -100, 'Pesos') of one asset net fully and both
\* rows are removed
C9_SinCantidadCero ==
    Neteado =>
        /\ \A r \in FilasDe(ops_netted) : RNe(r.Cantidad, Zero)
        /\ hoja = ConIdx(<<C9_Compra, C9_Venta>>) => ops_netted = <<>>

\* the scenario's pair was netted and both rows are gone
C9_Witness ==
    /\ Neteado
    /\ hoja = ConIdx(<<C9_Compra, C9_Venta>>)
    /\ matches = <<[compra |-> 1, venta |-> 2, cantidad |-> R(100)]>>
    /\ ops_netted = <<>>

(***************************************************************************)
(* C10.  Price normalization of Local transactions.                        *)
(***************************************************************************)
\* the exchange-rate rows dated at or before fecha
TasasHasta(fecha) == {t \in FilasDe(tipo_cambio_data) : t.Fecha <= fecha}

\* the rate in force at fecha: the one with the latest date
TasaVigente(fecha) ==
    (CHOOSE t \in TasasHasta(fecha) : \A u \in TasasHasta(fecha) : u.Fecha <= t.Fecha).TipoCambio

\* C10: every Local transaction, Income rows with no unit price included, with
\* a nonzero exchange rate dated at or before it has both its price and its
\* amount divided by that rate
C10_LocalDividido ==
    \A i \in DOMAIN hoja :
        ( /\ Clase(hoja[i]) = "pesos"
          /\ TasasHasta(hoja[i].Fecha) # {}
          /\ RNe(TasaVigente(hoja[i].Fecha), Zero) )
        => ( /\ operaciones[i].Precio = RDiv(hoja[i].Precio, TasaVigente(hoja[i].Fecha))
             /\ operaciones[i].Monto = RDiv(hoja[i].Monto, TasaVigente(hoja[i].Fecha)) )

(***************************************************************************)
(* C11.  Rows the normalizer passes through.                               *)
(***************************************************************************)
\* the normalizer finds no usable rate for a row dated fecha: no rate is
\* dated at or before it, or the rate in force is zero or absent
SinTasa(fecha) ==
    \/ TasasHasta(fecha) = {}
    \/ isna(TasaVigente(fecha))
    \/ REq(TasaVigente(fecha), Zero)

\* C11: a Foreign or Unknown transaction, and a Local transaction with no
\* exchange rate at or before its date or with a zero or absent rate, keeps
\* its price and amount; the normalizer returns a row for every row it got
C11_SinCambio ==
    /\ Len(operaciones) = Len(hoja)
    /\ \A i \in DOMAIN hoja :
          ( \/ Clase(hoja[i]) \in {"dolar", "unknown"}
            \/ Clase(hoja[i]) = "pesos" /\ SinTasa(hoja[i].Fecha) )
          => ( /\ operaciones[i].Precio = hoja[i].Precio
               /\ operaciones[i].Monto = hoja[i].Monto )

\* one ledger holds a priced Local row dated before every rate, a priced Local
\* row under a zero rate and an Unknown row under a nonzero rate, all three
\* unchanged
C11_Witness ==
    /\ \E i \in DOMAIN hoja :
          /\ Clase(hoja[i]) = "pesos"
          /\ notna(hoja[i].Precio)
          /\ TasasHasta(hoja[i].Fecha) = {}
          /\ operaciones[i] = hoja[i]
    /\ \E j \in DOMAIN hoja :
          /\ Clase(hoja[j]) = "pesos"
          /\ notna(hoja[j].Precio)
          /\ TasasHasta(hoja[j].Fecha) # {}
          /\ REq(TasaVigente(hoja[j].Fecha), Zero)
          /\ operaciones[j] = hoja[j]
    /\ \E k \in DOMAIN hoja :
          /\ Clase(hoja[k]) = "unknown"
          /\ TasasHasta(hoja[k].Fecha) # {}
          /\ ~SinTasa(hoja[k].Fecha)
          /\ operaciones[k] = hoja[k]

(***************************************************************************)
(* C12.  Idempotence of the normalizer.                                    *)
(***************************************************************************)
\* C12: applying ajustar_precios_operaciones to its own output, with the same
\* exchange-rate series, yields that output again
C12_Idempotente ==
    ajustar_precios_operaciones(operaciones, tipo_cambio_data) = operaciones

(***************************************************************************)
(* Price resolution: the series as sets of entries                         *)
(***************************************************************************)
HizoPrecio == consulta.tipo = "precio"

\* the entries of an asset's price series dated at or before fecha
EntradasHasta(activo, fecha) ==
    {e \in FilasDe(precios) : e.Activo = activo /\ e.Fecha <= fecha}

\* the entries of S with the greatest date
MasRecientes(S) == {e \in S : \A u \in S : u.Fecha <= e.Fecha}

(***************************************************************************)
(* C13.  The direct price is the latest at or before the date.             *)
(***************************************************************************)
\* C13: whatever the order of the price table, when the asset has a price
\* dated at or before the requested date the resolver returns the price of
\* the entry with the greatest such date, never one dated after the request
C13_UltimoPrecioHasta ==
    HizoPrecio =>
        LET D == EntradasHasta(consulta.activo, consulta.fecha)
        IN  D # {} => \E e \in MasRecientes(D) : consulta.precio = e.Precio

(***************************************************************************)
(* C14.  The fallback chain.                                               *)
(***************************************************************************)
\* a table holds every series in ascending date order
EnOrden(t) == \A i, j \in DOMAIN t : i < j => t[i].Fecha <= t[j].Fecha

SerieDe(activo) == LET Test(e) == e.Activo = activo IN SelectSeq(precios, Test)

\* the entries a lookup at fecha may answer with: the latest at or before
\* fecha; which entry answers in a series out of date order is C13's matter
PreciosVigentes(activo, fecha) ==
    IF EnOrden(SerieDe(activo)) THEN MasRecientes(EntradasHasta(activo, fecha))
    ELSE EntradasHasta(activo, fecha)

TasasVigentes(fecha) ==
    IF EnOrden(tipo_cambio_data) THEN MasRecientes(TasasHasta(fecha)) ELSE TasasHasta(fecha)

\* a local-currency price in foreign currency: divided by the rate, left as
\* it is when the rate is missing or zero
Convertidos(p, T) ==
    IF T = {} THEN {p}
    ELSE { IF isna(t.TipoCambio) \/ REq(t.TipoCambio, Zero) THEN p ELSE RDiv(p, t.TipoCambio) :
             t \in T }

TieneOperaciones(activo) == \E r \in FilasDe(ops_netted) : r.Activo = activo

\* the currency class of the asset's last transaction in the table
ClaseDelActivo(activo) ==
    LET I == {i \in DOMAIN ops_netted : ops_netted[i].Activo = activo}
        ult == CHOOSE i \in I : \A j \in I : j <= i
    IN  Clase(ops_netted[ult])

\* the resolver fell back: the asset has transactions and no direct price at
\* or before the date
SinPrecioDirecto ==
    /\ HizoPrecio
    /\ TieneOperaciones(consulta.activo)
    /\ EntradasHasta(consulta.activo, consulta.fecha) = {}

\* C14: with no direct price at or before the date, a Foreign asset gets the
\* DUMMY USD price at or before the date, unconverted, and a Local asset the
\* DUMMY Pesos price at or before the date divided by the exchange rate at or
\* before the date (undivided when the rate is missing or zero)
C14_Fallback ==
    SinPrecioDirecto =>
        /\ ( /\ ClaseDelActivo(consulta.activo) = "dolar"
             /\ EntradasHasta("DUMMY USD", consulta.fecha) # {} )
           => \E e \in PreciosVigentes("DUMMY USD", consulta.fecha) :
                 consulta.precio = e.Precio
        /\ ( /\ ClaseDelActivo(consulta.activo) = "pesos"
             /\ EntradasHasta("DUMMY Pesos", consulta.fecha) # {} )
           => \E e \in PreciosVigentes("DUMMY Pesos", consulta.fecha) :
                 consulta.precio \in Convertidos(e.Precio, TasasVigentes(consulta.fecha))

\* a Local asset priced only later got the second DUMMY Pesos price, 1000,
\* divided by the second rate, 200, although a DUMMY USD price was there
C14_Witness ==
    /\ SinPrecioDirecto
    /\ ClaseDelActivo(consulta.activo) = "pesos"
    /\ EntradasHasta(consulta.activo, Abr1) # {}
    /\ EntradasHasta("DUMMY USD", consulta.fecha) # {}
    /\ Cardinality(EntradasHasta("DUMMY Pesos", consulta.fecha)) = 2
    /\ Cardinality(TasasHasta(consulta.fecha)) = 2
    /\ consulta.precio = R(5)

(***************************************************************************)
(* C15.  The placeholder of an Unknown label.                              *)
(***************************************************************************)
\* C15 as claimed: when the label of the asset's last transaction is Unknown
\* (or absent), the fallback answers from the DUMMY Pesos series, converted
\* or not, and 0 when that series has no price at or before the date
C15_DesconocidoUsaPesos ==
    (SinPrecioDirecto /\ ClaseDelActivo(consulta.activo) = "unknown") =>
        IF EntradasHasta("DUMMY Pesos", consulta.fecha) = {} THEN consulta.precio = Zero
        ELSE \E e \in EntradasHasta("DUMMY Pesos", consulta.fecha) :
                \/ consulta.precio = e.Precio
                \/ consulta.precio \in Convertidos(e.Precio, TasasHasta(consulta.fecha))

\* C15 amended: when the label of the asset's last transaction is Unknown (or
\* absent), the fallback answers from the DUMMY USD series, as for Foreign and
\* unconverted, and 0 when that series has no price at or before the date
C15_DesconocidoUsaUSD ==
    (SinPrecioDirecto /\ ClaseDelActivo(consulta.activo) = "unknown") =>
        IF EntradasHasta("DUMMY USD", consulta.fecha) = {} THEN consulta.precio = Zero
        ELSE \E e \in PreciosVigentes("DUMMY USD", consulta.fecha) :
                consulta.precio = e.Precio

\* an asset whose last label is absent got the DUMMY USD price 8 where DUMMY
\* Pesos prices and rates were at hand
C15_Witness ==
    /\ SinPrecioDirecto
    /\ Last(ops_netted).Activo = consulta.activo
    /\ Last(ops_netted).Moneda = NA
    /\ EntradasHasta("DUMMY Pesos", consulta.fecha) # {}
    /\ TasasHasta(consulta.fecha) # {}
    /\ consulta.precio = R(8)

(***************************************************************************)
(* The evolution report: retained operations of a period                   *)
(***************************************************************************)
HizoEvolucion == consulta.tipo = "evolucion"

\* the retained operations of an asset dated at or before d: those dated
\* strictly after the last reset observed up to the start of the period
RetenidasHasta(asset, d) ==
    LET lr == UltimoReset(asset, consulta.inicio)
    IN  { r \in FilasDe(ops_netted) :
            /\ r.Activo = asset
            /\ r.Fecha <= d
            /\ (lr = None \/ r.Fecha > lr) }

\* the retained operations dated strictly after the start, up to the end
RetenidasEnPeriodo(asset) ==
    {r \in RetenidasHasta(asset, consulta.fecha) : r.Fecha > consulta.inicio}

(***************************************************************************)
(* C16.  Valor al Inicio.                                                  *)
(***************************************************************************)
\* C16: in every row, Valor al Inicio = (quantity at start x price at start)
\* + the amounts of the retained Buys dated after start and at or before end,
\* the quantity at start being the net of the retained operations dated at or
\* before start; a Buy dated at start counts through the start quantity only
C16_ValorAlInicio ==
    HizoEvolucion =>
        \A i \in DOMAIN portfolio_df :
            LET row == portfolio_df[i]
                cantidad_inicio == CantidadNeta(RetenidasHasta(row.Activo, consulta.inicio))
            IN  row.ValorInicio =
                    RAdd(RMul(cantidad_inicio, PrecioResuelto(row.Activo, consulta.inicio)),
                         SumaMontos(SoloBuy(RetenidasEnPeriodo(row.Activo))))

(***************************************************************************)
(* C17.  Nominales and Valor Actual of the evolution report.               *)
(***************************************************************************)
\* C17: in every row, Nominales = retained Buy quantities - absolute retained
\* Sell quantities over the retained operations dated at or before end, each
\* counted once, and Valor Actual = Nominales x price at end
C17_NominalesAlFin ==
    HizoEvolucion =>
        \A i \in DOMAIN portfolio_df :
            LET row == portfolio_df[i]
            IN  /\ row.Nominales = CantidadNeta(RetenidasHasta(row.Activo, consulta.fecha))
                /\ row.ValorActual =
                      RMul(row.Nominales, PrecioResuelto(row.Activo, consulta.fecha))

(***************************************************************************)
(* C18.  Flows of the period.                                              *)
(***************************************************************************)
\* C18: in every row, Div - Cupones and Ventas are the cumulative income and
\* proceeds at end minus those at start, cumulative at d being the sum over
\* the retained operations dated at or before d; a transaction dated at start
\* is no part of the period's flows
C18_FlujosDelPeriodo ==
    HizoEvolucion =>
        \A i \in DOMAIN portfolio_df :
            LET row == portfolio_df[i]
                alFin == RetenidasHasta(row.Activo, consulta.fecha)
                alInicio == RetenidasHasta(row.Activo, consulta.inicio)
            IN  /\ row.DivCupones =
                      RSub(SumaMontos(SoloIncome(alFin)), SumaMontos(SoloIncome(alInicio)))
                /\ row.Ventas =
                      RSub(SumaMontos(SoloSell(alFin)), SumaMontos(SoloSell(alInicio)))

(***************************************************************************)
(* C19.  Inclusion in the evolution report.                                *)
(***************************************************************************)
\* the asset's transactions in date order (ties in table order)
OpsDe(asset) ==
    LET Test(r) == r.Activo = asset IN sort_values(SelectSeq(ops_netted, Test))

\* the held quantity after the first k transactions of the asset
Tenencia(asset, k) == CantidadNeta({OpsDe(asset)[j] : j \in 1..k})

\* the held quantity was above 0 after a transaction dated within the period,
\* or above 0 at start (before or after the transactions dated at start)
TuvoPosicion(asset) ==
    \/ \E k \in DOMAIN OpsDe(asset) :
          /\ OpsDe(asset)[k].Fecha >= consulta.inicio
          /\ OpsDe(asset)[k].Fecha <= consulta.fecha
          /\ RGt(Tenencia(asset, k), Zero)
    \/ RGt(CantidadNeta({r \in FilasDe(ops_netted) :
                            r.Activo = asset /\ r.Fecha < consulta.inicio}), Zero)
    \/ RGt(CantidadNeta({r \in FilasDe(ops_netted) :
                            r.Activo = asset /\ r.Fecha <= consulta.inicio}), Zero)

\* C19: an asset is in the evolution report only if its held quantity (Buys
\* added, absolute value of Sells subtracted) was above 0 at some point of
\* [start, end] or at start; an asset closed before start with no Buy in the
\* period is not in the report
C19_SoloConPosicion ==
    HizoEvolucion =>
        \A asset \in ActivosDe(ops_netted) : EnReporte(asset) => TuvoPosicion(asset)

(***************************************************************************)
(* C20.  Currency classification.                                          *)
(***************************************************************************)
TokensForeign ==
    { <<"d","ó","l","a","r">>, <<"d","o","l","a","r">>, <<"u","s","d">>, <<"u","$","s">>,
      <<"u","$">>, <<"u","s","$">>, <<"b","i","l","l","e","t","e">> }

TokensLocal == { <<"p","e","s","o","s">>, <<"p","e","s","o">>, <<"a","r","s">> }

\* the label, trimmed and lower-cased, contains one of the tokens
Tiene(label, tokens) == \E k \in tokens : contains(lower(strip(label)), k)

\* the class of each label of the runs, worked out by hand from the rule
ClaseEsperada(label) ==
    IF label \in { <<" ","U","S","D"," ">>, <<"D","Ó","L","A","R">>, <<"D","o","l","a","r">>,
                    <<"u","$","s">>, <<"U","$">>, <<"U","S","$">>,
                    <<"B","i","l","l","e","t","e">>, <<"P","e","s","o","s"," ","U","S","D">> }
    THEN "dolar"
    ELSE IF label \in { <<"P","e","s","o","s">>, <<"P","e","s","o">>, <<"A","R","S">>,
                         <<"D","o","l","l","a","r","s">> }
    THEN "pesos"
    ELSE "unknown"

\* C20: an absent label is unknown; otherwise, trimmed and lower-cased, a
\* label with a foreign token is Foreign (also when it has a peso token), else
\* one with a peso token is Local, else it is Unknown; the result is one of
\* the three classes, and only Local rows are converted
C20_Clasificacion ==
    \A i \in DOMAIN hoja :
        LET label == hoja[i].Moneda
            clase == detectar_moneda(label)
        IN  /\ clase \in {"dolar", "pesos", "unknown"}
            /\ label = NA => clase = "unknown"
            /\ (label # NA /\ Tiene(label, TokensForeign)) => clase = "dolar"
            /\ (label # NA /\ ~Tiene(label, TokensForeign) /\ Tiene(label, TokensLocal))
                  => clase = "pesos"
            /\ (label # NA /\ ~Tiene(label, TokensForeign) /\ ~Tiene(label, TokensLocal))
                  => clase = "unknown"
            /\ clase = ClaseEsperada(label)
            /\ (operaciones[i] # hoja[i]) <=> (ClaseEsperada(label) = "pesos")

\* a ledger with a label holding both a peso and a foreign token (left as it
\* is), one holding 'ars' inside a word (converted) and an absent label
C20_Witness ==
    /\ \E i \in DOMAIN hoja :
          /\ hoja[i].Moneda = <<"P","e","s","o","s"," ","U","S","D">>
          /\ operaciones[i] = hoja[i]
    /\ \E j \in DOMAIN hoja :
          /\ hoja[j].Moneda = <<"D","o","l","l","a","r","s">>
          /\ operaciones[j].Monto = R(1000)
    /\ \E k \in DOMAIN hoja : hoja[k].Moneda = NA /\ operaciones[k] = hoja[k]

(***************************************************************************)
(* Main-flow vocabulary                                                    *)
(***************************************************************************)
HizoDetalle == consulta.tipo = "detalle"

CargaFallida == ~carga.tablas

\* C22: when the load fails (the file is missing or cannot be read) an
\* error message has been shown, load_data has returned no tables, and the
\* request computes no current report, no evolution report and no detail.
C22_SinReporteSiFallaLaCarga ==
    CargaFallida =>
        /\ Len(carga.errores) > 0
        /\ consulta = SinConsulta
        /\ portfolio_df = <<>>
        /\ ops_netted = <<>>

\* a load failed on a file that earlier requests had loaded rows from
C22_Witness == CargaFallida /\ Len(hoja) > 0 /\ Len(carga.errores) > 0

(***************************************************************************)
(* C23.  The detail report.                                                *)
(***************************************************************************)
\* the last reset the detail's scan observed up to the start of the period
ResetDetalle ==
    reset_hasta_detalle([running_nominals |-> Zero, last_reset_date |-> None],
                        OpsDe(consulta.activo), consulta.inicio).last_reset_date

\* the retained operations of the selected asset, up to the end of the period
RetenidasDetalle ==
    { r \in FilasDe(ops_netted) :
        /\ r.Activo = consulta.activo
        /\ r.Fecha <= consulta.fecha
        /\ (ResetDetalle = None \/ r.Fecha > ResetDetalle) }

\* the post-reset quantity at start
CantidadAlInicio == CantidadNeta({r \in RetenidasDetalle : r.Fecha <= consulta.inicio})

TieneValorInicial == portfolio_df # <<>> /\ portfolio_df[1].Operacion = ValorInicial

Listadas == IF TieneValorInicial THEN Tail(portfolio_df) ELSE portfolio_df

\* the listed row is a Buy or a Sell, which the quantity at start counts
MueveCantidad(fila) ==
    contains(lower(fila.Operacion), kw_compra) \/ contains(lower(fila.Operacion), kw_venta)

\* the report opens as the claim says and lists retained operations of the
\* period in ascending date order
C23_AperturaYListado ==
    /\ TieneValorInicial <=> RGt(CantidadAlInicio, Zero)
    /\ TieneValorInicial =>
          /\ portfolio_df[1].Fecha = consulta.inicio
          /\ portfolio_df[1].Nominales = CantidadAlInicio
          /\ portfolio_df[1].Precio = PrecioResuelto(consulta.activo, consulta.inicio)
          /\ portfolio_df[1].Valor = RMul(portfolio_df[1].Nominales, portfolio_df[1].Precio)
    /\ \A i \in DOMAIN Listadas :
          /\ Listadas[i].Fecha >= consulta.inicio
          /\ \E r \in RetenidasDetalle : Listadas[i] = fila_detalle(r)
    /\ \A i, j \in DOMAIN Listadas : i < j => Listadas[i].Fecha <= Listadas[j].Fecha

\* C23: the detail report starts with a 'Valor Inicial' row exactly when the
\* post-reset quantity at start is above 0 (Nominales that quantity, Precio the
\* resolved price at start, Valor their product), followed by the retained
\* operations of the period in ascending date order; a transaction the
\* opening quantity already includes is not listed again.
C23_Detalle ==
    HizoDetalle =>
        /\ C23_AperturaYListado
        /\ TieneValorInicial =>
              \A i \in DOMAIN Listadas :
                  MueveCantidad(Listadas[i]) => Listadas[i].Fecha > consulta.inicio

(***************************************************************************)
(* C24.  Queries work on copies.                                           *)
(***************************************************************************)
\* the step is a query of the loaded tables
EsConsulta == consulta'.tipo # "ninguna"

\* the tables as load_data returned them: the normalized ledger of the file
RecienCargadas == ajustar_precios_operaciones(hoja, tipo_cambio_data)

\* what the query just made returns on the tables as they were loaded
SobreLoCargado ==
    LET ops == ajustar_precios_operaciones(hoja', tipo_cambio_data')
    IN  CASE consulta'.tipo = "actual" ->
               calculate_current_portfolio(ops, precios', consulta'.fecha, tipo_cambio_data')
          [] consulta'.tipo = "evolucion" ->
               calculate_portfolio_evolution(ops, precios', consulta'.inicio, consulta'.fecha, tipo_cambio_data')
          [] consulta'.tipo = "detalle" ->
               mostrar_analisis_detallado_activo(ops, precios', consulta'.activo, consulta'.inicio, consulta'.fecha, tipo_cambio_data')

\* C24: normalization, netting and every query leave the tables passed to
\* them unchanged, and the result of a query is the one it gives on the
\* tables as loaded, whatever queries ran before it.
C24_TablasIntactas ==
    [][EsConsulta =>
          /\ hoja' = hoja
          /\ operaciones' = operaciones
          /\ precios' = precios
          /\ tipo_cambio_data' = tipo_cambio_data
          /\ operaciones' = ajustar_precios_operaciones(hoja', tipo_cambio_data')
          /\ portfolio_df' = SobreLoCargado]_vars

\* a second query of one request (the detail follows the evolution) ran on a
\* ledger whose netting changed rows of its working copy, and the loaded
\* table is still the normalized ledger of the file
C24_Witness ==
    /\ HizoDetalle
    /\ ops_netted # operaciones
    /\ operaciones = RecienCargadas
    /\ hoja # operaciones

(***************************************************************************)
(* C25.  The reset scan.                                                   *)
(***************************************************************************)
\* one transaction of the scan as stated: a Buy adds its quantity, a Sell
\* subtracts the absolute value of its quantity, anything else leaves the
\* running quantity; a crossing from above 0 to 0 or below records the date
\* and forces the running quantity to 0
EscaneoPaso(s, r) ==
    LET q == IF EsBuy(r) THEN RAdd(s.cantidad, r.Cantidad)
             ELSE IF EsSell(r) THEN RSub(s.cantidad, RAbs(r.Cantidad))
             ELSE s.cantidad
    IN  IF RGt(s.cantidad, Zero) /\ RLe(q, Zero)
        THEN [cantidad |-> Zero, reset |-> r.Fecha]
        ELSE [cantidad |-> q, reset |-> s.reset]

RECURSIVE EscaneoDesde(_, _)
EscaneoDesde(s, ops) ==
    IF ops = <<>> THEN s ELSE EscaneoDesde(EscaneoPaso(s, Head(ops)), Tail(ops))

Escaneo(ops) == EscaneoDesde([cantidad |-> Zero, reset |-> None], ops)

\* the bound of the scan of the last query: the evaluation date of the
\* current report, the start of the period of the evolution report
CotaDelEscaneo == IF HizoEvolucion THEN consulta.inicio ELSE consulta.fecha

\* C25: in the reset scans of the current and the evolution report a Buy adds
\* its quantity, a Sell subtracts the absolute value of its quantity whatever
\* its stored sign and Income leaves the running quantity; crossing from above
\* 0 to 0 or below sets last_reset_date and forces 0, so a Sell stored
\* negative that closes the position triggers a reset.
C25_EscaneoConValorAbsoluto ==
    (HizoActual \/ HizoEvolucion) =>
        \A asset \in ActivosDe(ops_netted) :
            UltimoReset(asset, CotaDelEscaneo) =
                Escaneo(asset_ops_until(ops_netted, asset, CotaDelEscaneo)).reset

(***************************************************************************)
(* C26.  A Sell is consumed at most once.                                  *)
(***************************************************************************)
\* the nettings made against the Sell v, in the order they were made
NettingsDe(v) == {k \in DOMAIN matches : matches[k].venta = v.idx}

\* the quantity matched against v in the nettings of K
Casado(K) == Suma([k \in K |-> matches[k].cantidad], K)

\* C26: a Sell consumed by one netting offers only its remaining magnitude to
\* later Buys: each netting takes at most what the earlier ones left, the
\* total matched against a Sell never exceeds its original magnitude, and its
\* final quantity is its original magnitude minus everything matched.
C26_VentaConsumida ==
    Neteado =>
        \A v \in SoloSell(FilasDe(operaciones)) :
            /\ \A k \in NettingsDe(v) :
                  RLe(matches[k].cantidad,
                      RSub(RAbs(v.Cantidad), Casado({j \in NettingsDe(v) : j < k})))
            /\ RLe(Casado(NettingsDe(v)), RAbs(v.Cantidad))
            /\ RAbs(CantidadFinal(v)) = RSub(RAbs(v.Cantidad), Casado(NettingsDe(v)))

(***************************************************************************)
(* C28.  Partial netting keeps the unit cost.                              *)
(***************************************************************************)
\* C28: every row that survives netting has its amount reduced in the same
\* proportion as its quantity, also after several nettings in succession:
\* amount after x quantity before = amount before x quantity after.
C28_MontoProporcional ==
    Neteado =>
        \A q \in FilasDe(ops_netted) :
            RMul(q.Monto, Entrada(q.idx).Cantidad) = RMul(Entrada(q.idx).Monto, q.Cantidad)

(***************************************************************************)
(* C30.  The reported quantity and the scan.                               *)
(***************************************************************************)
\* the running quantity of the reset scan of the asset after its last
\* scanned transaction
CantidadDelEscaneo(asset) ==
    reset_scan(asset_ops_until(ops_netted, asset, consulta.fecha)).running_nominals

\* C30: for every asset in the current report the reported quantity equals
\* the running quantity of the reset scan after its last scanned transaction.
C30_CantidadDelEscaneo ==
    HizoActual =>
        \A i \in DOMAIN portfolio_df :
            portfolio_df[i].Nominales = CantidadDelEscaneo(portfolio_df[i].Activo)

(***************************************************************************)
(* C27.  No look-ahead.                                                    *)
(***************************************************************************)
\* the loaded ledger without the transactions dated after d
LedgerHasta(d) == LET Test(r) == r.Fecha <= d IN SelectSeq(operaciones, Test)

\* C27: the current report at D is the one of the transactions dated at or
\* before D; the evolution report of a period is the one of the transactions
\* dated at or before its end, and its reset is the one of the transactions
\* dated at or before its start.
C27_SinMirarAdelante ==
    /\ HizoActual =>
          portfolio_df =
              calculate_current_portfolio(LedgerHasta(consulta.fecha), precios, consulta.fecha,
                                          tipo_cambio_data)
    /\ HizoEvolucion =>
          /\ portfolio_df =
                calculate_portfolio_evolution(LedgerHasta(consulta.fecha), precios,
                                              consulta.inicio, consulta.fecha, tipo_cambio_data)
          /\ \A asset \in ActivosDe(ops_netted) :
                UltimoReset(asset, consulta.inicio) =
                    reset_scan(asset_ops_until(
                        aplicar_netting_cross_currency(LedgerHasta(consulta.inicio)),
                        asset, consulta.inicio)).last_reset_date

(***************************************************************************)
(* C29.  One classification of kinds.                                      *)
(***************************************************************************)
\* the table with every Buy labelled 'Compra' and every Sell labelled 'Venta'
Canonica(t) ==
    [i \in DOMAIN t |->
        [t[i] EXCEPT !.Tipo = IF EsBuy(t[i]) THEN Compra ELSE IF EsSell(t[i]) THEN Venta ELSE @]]

\* C29: every stage classifies the kind of a transaction by case-insensitive
\* substring, so netting, the sums and the reset scans give the same result
\* whether a Buy is labelled 'COMPRA' or 'Compra' and a Sell 'Venta de
\* títulos' or 'Venta'.
C29_ClasePorSubcadena ==
    (HizoActual \/ HizoEvolucion) =>
        /\ Canonica(ops_netted) = aplicar_netting_cross_currency(Canonica(operaciones))
        /\ \A asset \in ActivosDe(ops_netted) :
              LET ops == asset_ops_until(ops_netted, asset, CotaDelEscaneo)
              IN  /\ acumular(ops) = acumular(Canonica(ops))
                  /\ reset_scan(ops).last_reset_date = reset_scan(Canonica(ops)).last_reset_date

\* the netting and the sums of the stated claim alone
C29_NettingYSumas ==
    (HizoActual \/ HizoEvolucion) =>
        /\ Canonica(ops_netted) = aplicar_netting_cross_currency(Canonica(operaciones))
        /\ \A asset \in ActivosDe(ops_netted) :
              LET ops == asset_ops_until(ops_netted, asset, CotaDelEscaneo)
              IN  acumular(ops) = acumular(Canonica(ops))

(***************************************************************************)
(* C31.  The evolution report and the detail agree on the start.           *)
(***************************************************************************)
\* the last reset the evolution report's scan observes for the selected
\* asset up to the start of the period
ResetEvolucion ==
    reset_hasta([running_nominals |-> Zero, last_reset_date |-> None],
                OpsDe(consulta.activo), consulta.inicio).last_reset_date

\* the quantity at start of the evolution report
CantidadInicioEvolucion ==
    acumular(ops_until_inicio(
        ops_since_reset_hasta(OpsDe(consulta.activo), ResetEvolucion, consulta.fecha),
        consulta.inicio)).nominals

\* the quantity at start of the detail
CantidadInicioDetalle ==
    nominales_al_inicio(Zero,
        ops_since_reset_hasta(OpsDe(consulta.activo), ResetDetalle, consulta.fecha),
        consulta.inicio)

\* the quantity-at-start x price-at-start term of the evolution row's
\* Valor al Inicio
TerminoInicioEvolucion ==
    IF RGt(CantidadInicioEvolucion, Zero)
    THEN RMul(CantidadInicioEvolucion, PrecioResuelto(consulta.activo, consulta.inicio))
    ELSE Zero

\* the Valor of the detail's 'Valor Inicial' row, 0 when there is none
ValorInicialDetalle == IF TieneValorInicial THEN portfolio_df[1].Valor ELSE Zero

\* C31: for the same tables, asset, start and end the evolution report and
\* the detail derive the same last_reset_date and the same quantity at start,
\* and the Valor of the 'Valor Inicial' row equals the quantity-at-start x
\* price-at-start term of the evolution row's Valor al Inicio.
C31_MismoInicio ==
    HizoDetalle =>
        /\ ResetDetalle = ResetEvolucion
        /\ CantidadInicioDetalle = CantidadInicioEvolucion
        /\ ValorInicialDetalle = TerminoInicioEvolucion

(***************************************************************************)
(* C32.  Netting keeps signs and never enlarges a quantity.                *)
(***************************************************************************)
Sobrevive(r) == \E q \in FilasDe(ops_netted) : q.idx = r.idx

\* C32: after netting every Sell that entered with a negative quantity is
\* removed or still strictly negative, every Buy that entered with a positive
\* quantity is removed or still strictly positive, and no row's quantity is
\* larger in magnitude than before.
C32_SignoYMagnitud ==
    Neteado =>
        \A r \in FilasDe(operaciones) :
            /\ (EsSell(r) /\ RLt(r.Cantidad, Zero)) =>
                  (~Sobrevive(r) \/ RLt(CantidadFinal(r), Zero))
            /\ (EsBuy(r) /\ RGt(r.Cantidad, Zero)) =>
                  (~Sobrevive(r) \/ RGt(CantidadFinal(r), Zero))
            /\ ~RGt(RAbs(CantidadFinal(r)), RAbs(r.Cantidad))

\* a Buy reduced by a smaller Sell is still positive and a Sell reduced by a
\* smaller Buy is still negative
C32_Witness ==
    /\ Neteado
    /\ \E c \in SoloBuy(FilasDe(operaciones)) :
          Reducida(c) /\ Sobrevive(c) /\ RGt(CantidadFinal(c), Zero)
    /\ \E v \in SoloSell(FilasDe(operaciones)) :
          Reducida(v) /\ Sobrevive(v) /\ RLt(CantidadFinal(v), Zero)

(***************************************************************************)
(* C33.  Order of consumption.                                             *)
(***************************************************************************)
\* the Sells of the input the Buy c may be netted against: same asset, stored
\* negative, within the window, of another currency class
Elegibles(c) ==
    { v \in SoloSell(DelActivo(c.Activo)) :
        /\ RLt(v.Cantidad, Zero)
        /\ Dias(c, v) >= -VentanaDias /\ Dias(c, v) <= VentanaDias
        /\ Clase(v) # Clase(c) }

\* the nettings of the Buy c, in the order they were made
NettingsDeCompra(c) == {k \in DOMAIN matches : matches[k].compra = c.idx}

CompraDe(k) == Entrada(matches[k].compra)
VentaDe(k) == Entrada(matches[k].venta)

SinContraparte(r) ==
    \/ EsIncome(r)
    \/ EsBuy(r) /\ Elegibles(r) = {}
    \/ EsSell(r) /\ ~\E c \in SoloBuy(DelActivo(r.Activo)) : r \in Elegibles(c)

\* every row of the output is a row of the input with, at most, another
\* quantity and amount
C34_SoloCantidadYMonto ==
    \A q \in FilasDe(ops_netted) :
        q = [Entrada(q.idx) EXCEPT !.Cantidad = q.Cantidad, !.Monto = q.Monto]

\* C34: netting changes only the quantity and the amount of the Buy and Sell
\* rows it matches: every Income transaction (also one recorded with quantity
\* 0), every Buy or Sell with no eligible counterpart and every row of another
\* asset is in the output with all fields unchanged.
C34_SinContraparteIntacta ==
    Neteado =>
        /\ C34_SoloCantidadYMonto
        /\ \A r \in FilasDe(operaciones) : SinContraparte(r) => r \in FilasDe(ops_netted)

(***************************************************************************)
(* C35.  The normalizer changes prices and amounts of Local rows only.     *)
(***************************************************************************)
\* C35: ajustar_precios_operaciones returns the same rows in the same order
\* as its input and changes nothing but the price and the amount of Local
\* rows: date, kind, asset, quantity and currency label of every row are
\* preserved.
C35_SoloPrecioYMonto ==
    /\ Len(operaciones) = Len(hoja)
    /\ \A i \in DOMAIN hoja :
          /\ operaciones[i] =
                [hoja[i] EXCEPT !.Precio = operaciones[i].Precio, !.Monto = operaciones[i].Monto]
          /\ Clase(hoja[i]) # "pesos" => operaciones[i] = hoja[i]

\* a ledger out of date order with a Local row whose price and amount were
\* converted and a row that is not Local
C35_Witness ==
    /\ \E i \in DOMAIN hoja :
          /\ Clase(hoja[i]) = "pesos"
          /\ operaciones[i].Precio # hoja[i].Precio
          /\ operaciones[i].Monto # hoja[i].Monto
    /\ \E j \in DOMAIN hoja : Clase(hoja[j]) # "pesos"
    /\ \E k, m \in DOMAIN hoja : k < m /\ hoja[k].Fecha > hoja[m].Fecha
====
